---- MODULE Spec2Model ----
(***************************************************************************)
(* State-machine model of the stock dashboard's server routes              *)
(* (quote, news, indicators, market overview, AI analysis) and of the      *)
(* input validator they share.                                             *)
(*                                                                         *)
(* Every route is its own module with its own process-local maps; the      *)
(* routes share no state.  A behaviour therefore exercises one route,      *)
(* named by the variable `route`, and the specification of the whole       *)
(* program is the union of the routes' behaviours.                         *)
(*                                                                         *)
(* Strings are sequences of one-character strings.  A JavaScript value     *)
(* that may be a string, null or undefined is a record [t, v].             *)
(***************************************************************************)
EXTENDS Integers, Sequences, FiniteSets, TLC

VARIABLES
    route,            \* the route module this behaviour exercises
    now,              \* Date.now(), in milliseconds
    env,              \* process.env: which API keys are configured
    rateLimitMap,     \* the route's rateLimitMap: ip -> {count, resetTime}
    admitLog,         \* history: ip -> (time -> requests admitted at that time)
    window,           \* history: ip -> {start, admits} of the reference fixed window
    newsCache,        \* news route: symbol -> {data, timestamp}
    indicatorsCache,  \* indicators route: symbol -> {data, timestamp}
    analysisCache,    \* AI route: symbol -> {analysis, timestamp, stockPrice}
    cachedData,       \* market route: the cached MarketData, or none
    cachedRate,       \* exchange route: the cached ExchangeRate, or none
    cacheTime,        \* market and exchange routes: the time the cached value carries
    req,              \* the requests in flight: slot -> request record
    symIn,            \* validator harness: the input string
    symOut,           \* validator harness: validateSymbol's result
    alphaVantageCache,\* enriched AI route: key -> {data, timestamp}
    arg,              \* function harness: the argument
    ret               \* function harness: the value returned

vars == <<route, now, env, rateLimitMap, admitLog, window, newsCache,
          indicatorsCache, analysisCache, cachedData, cacheTime, cachedRate, req,
          symIn, symOut, alphaVantageCache, arg, ret>>

caches == <<newsCache, indicatorsCache, analysisCache, cachedData, cacheTime, cachedRate,
            alphaVantageCache>>

limiter == <<rateLimitMap, admitLog, window>>

harness == <<symIn, symOut, arg, ret>>

(***************************************************************************)
(* Bounds of the model.                                                    *)
(***************************************************************************)
\* longest run of one repeated character in a validator input
MaxRun == 11

\* number of clock advances in a behaviour
MaxTicks == 2

\* concurrent request slots of a route
NumReqs == 2

\* request slots of the quote route, which are reused
NumQuoteReqs == 1

(***************************************************************************)
(* JavaScript values and strings.                                          *)
(***************************************************************************)
Str(s) == [t |-> "string", v |-> s]

Null == [t |-> "null", v |-> <<>>]

Undefined == [t |-> "undefined", v |-> <<>>]

Pending == [t |-> "pending", v |-> <<>>]

Num(n) == [t |-> "number", v |-> n]

Arr(a) == [t |-> "array", v |-> a]

Obj(o) == [t |-> "object", v |-> o]

Bool(b) == [t |-> "boolean", v |-> b]

\* JavaScript truthiness of a value
Truthy(x) ==
    /\ x.t \notin {"undefined", "null", "nan"}
    /\ ~(x.t = "string" /\ Len(x.v) = 0)
    /\ ~(x.t = "number" /\ x.v = 0)
    /\ ~(x.t = "double" /\ x.m = <<>>)
    /\ ~(x.t = "boolean" /\ ~x.v)

LowerChars == {"a", "p", "l", "z"}

UpperChars == {"A", "P", "L", "Z"}

DigitChars == {"0", "9"}

PunctChars == {".", "-"}

OtherChars == {" ", "$", "_"}

Chars == LowerChars \cup UpperChars \cup DigitChars \cup PunctChars \cup OtherChars

\* String.prototype.toUpperCase on one character
UpperOf(c) ==
    CASE c = "a" -> "A"
      [] c = "p" -> "P"
      [] c = "l" -> "L"
      [] c = "z" -> "Z"
      [] OTHER -> c

ToUpperCase(s) == [i \in 1..Len(s) |-> UpperOf(s[i])]

\* the character class [a-zA-Z0-9.-] of validateSymbol's regular expression
IsSymbolChar(c) == c \in LowerChars \cup UpperChars \cup DigitChars \cup PunctChars

\* the white space and line ends among the characters a text of the model
\* is written with
WhiteSpaceChars == {" ", "\t", "\n", "\r", "\f"}

IsWhitespace(c) == c \in WhiteSpaceChars

\* String.prototype.replace(/[^a-zA-Z0-9.-]/g, "")
StripDisallowed(s) == SelectSeq(s, IsSymbolChar)

RECURSIVE TrimStart(_)
TrimStart(s) ==
    IF Len(s) > 0 /\ IsWhitespace(s[1]) THEN TrimStart(Tail(s)) ELSE s

RECURSIVE TrimEnd(_)
TrimEnd(s) ==
    IF Len(s) > 0 /\ IsWhitespace(s[Len(s)])
    THEN TrimEnd(SubSeq(s, 1, Len(s) - 1))
    ELSE s

\* String.prototype.trim
Trim(s) == TrimEnd(TrimStart(s))

\* longest symbol validateSymbol accepts
MAX_SYMBOL_LENGTH == 10

\* validateSymbol with the length test off by one: it accepts 11 characters
validateSymbol_ElevenAccepted(input) ==
    IF input.t # "string" \/ Len(input.v) = 0
    THEN Null
    ELSE LET sanitized == Trim(ToUpperCase(StripDisallowed(input.v)))
         IN  IF Len(sanitized) = 0 \/ Len(sanitized) > MAX_SYMBOL_LENGTH + 1
             THEN Null
             ELSE Str(sanitized)

\* validateSymbol without the test for an empty result
validateSymbol_EmptyAccepted(input) ==
    IF input.t # "string" \/ Len(input.v) = 0
    THEN Null
    ELSE LET sanitized == Trim(ToUpperCase(StripDisallowed(input.v)))
         IN  IF Len(sanitized) > MAX_SYMBOL_LENGTH
             THEN Null
             ELSE Str(sanitized)

validateSymbol(input) ==
    IF input.t # "string" \/ Len(input.v) = 0
    THEN Null
    ELSE LET sanitized == Trim(ToUpperCase(StripDisallowed(input.v)))
         IN  IF Len(sanitized) = 0 \/ Len(sanitized) > MAX_SYMBOL_LENGTH
             THEN Null
             ELSE Str(sanitized)

(***************************************************************************)
(* Maps (JavaScript Map): functions whose domain is the set of keys.       *)
(***************************************************************************)
EmptyMap == [k \in {} |-> 0]

MapHas(m, k) == k \in DOMAIN m

MapSet(m, k, val) == [x \in DOMAIN m \cup {k} |-> IF x = k THEN val ELSE m[x]]

RECURSIVE SumOver(_, _)
\* the sum of f[x] over the set S of keys of f
SumOver(f, S) ==
    IF S = {} THEN 0
    ELSE LET x == CHOOSE y \in S : TRUE IN f[x] + SumOver(f, S \ {x})

(***************************************************************************)
(* The clock.  Each route's clock advances in steps that land exactly on   *)
(* the boundaries its code compares against (now = resetTime, age = TTL).  *)
(***************************************************************************)
\* route.ts: RATE_LIMIT, requests per window
RATE_LIMIT == 30

\* route.ts: RATE_WINDOW, milliseconds
RATE_WINDOW == 60000

\* news/route.ts: CACHE_DURATION = 5 * 60 * 1000
NEWS_CACHE_DURATION == 300000

\* indicators route: CACHE_DURATION_MS = 5 * 60 * 1000
INDICATORS_CACHE_DURATION_MS == 300000

\* ai/route.ts: CACHE_DURATION_MS = 60 * 60 * 1000
AI_CACHE_DURATION_MS == 3600000

\* market route: CACHE_DURATION
MARKET_CACHE_DURATION == 60000

\* exchange route: CACHE_DURATION = 5 * 60 * 1000
EXCHANGE_CACHE_DURATION == 300000

\* exchange route: FALLBACK_RATE = 33.5, in ten-thousandths
FALLBACK_RATE == 335000

ClockStep(rt) ==
    CASE rt = "quote" -> RATE_WINDOW
      [] rt = "news" -> NEWS_CACHE_DURATION \div 2
      [] rt = "indicators" -> INDICATORS_CACHE_DURATION_MS \div 2
      [] rt = "ai" -> AI_CACHE_DURATION_MS \div 2
      [] rt = "market" -> MARKET_CACHE_DURATION \div 2
      [] rt = "exchange" -> EXCHANGE_CACHE_DURATION \div 2
      [] OTHER -> 1

(***************************************************************************)
(* Rate limiter (quote and news routes carry the same code).               *)
(***************************************************************************)
\* checkRateLimit with the window test off by one: it resets at now = resetTime
checkRateLimit_ResetAtBoundary(map, ip, t) ==
    IF ~MapHas(map, ip) \/ t >= map[ip].resetTime
    THEN [allowed |-> TRUE,
          map |-> MapSet(map, ip, [count |-> 1, resetTime |-> t + RATE_WINDOW])]
    ELSE IF map[ip].count >= RATE_LIMIT
    THEN [allowed |-> FALSE, map |-> map]
    ELSE [allowed |-> TRUE,
          map |-> MapSet(map, ip, [count |-> map[ip].count + 1,
                                   resetTime |-> map[ip].resetTime])]

\* checkRateLimit with the count test off by one: it admits RATE_LIMIT + 1
checkRateLimit_OneTooMany(map, ip, t) ==
    IF ~MapHas(map, ip) \/ t > map[ip].resetTime
    THEN [allowed |-> TRUE,
          map |-> MapSet(map, ip, [count |-> 1, resetTime |-> t + RATE_WINDOW])]
    ELSE IF map[ip].count > RATE_LIMIT
    THEN [allowed |-> FALSE, map |-> map]
    ELSE [allowed |-> TRUE,
          map |-> MapSet(map, ip, [count |-> map[ip].count + 1,
                                   resetTime |-> map[ip].resetTime])]

\* checkRateLimit counting the requests it rejects
checkRateLimit_CountsRejected(map, ip, t) ==
    IF ~MapHas(map, ip) \/ t > map[ip].resetTime
    THEN [allowed |-> TRUE,
          map |-> MapSet(map, ip, [count |-> 1, resetTime |-> t + RATE_WINDOW])]
    ELSE IF map[ip].count >= RATE_LIMIT
    THEN [allowed |-> FALSE,
          map |-> MapSet(map, ip, [count |-> map[ip].count + 1,
                                   resetTime |-> map[ip].resetTime])]
    ELSE [allowed |-> TRUE,
          map |-> MapSet(map, ip, [count |-> map[ip].count + 1,
                                   resetTime |-> map[ip].resetTime])]

checkRateLimit(map, ip, t) ==
    IF ~MapHas(map, ip) \/ t > map[ip].resetTime
    THEN [allowed |-> TRUE,
          map |-> MapSet(map, ip, [count |-> 1, resetTime |-> t + RATE_WINDOW])]
    ELSE IF map[ip].count >= RATE_LIMIT
    THEN [allowed |-> FALSE, map |-> map]
    ELSE [allowed |-> TRUE,
          map |-> MapSet(map, ip, [count |-> map[ip].count + 1,
                                   resetTime |-> map[ip].resetTime])]

\* request.headers.get("x-forwarded-for"): null, or the list of addresses
\* const ip = forwarded ? forwarded.split(",")[0] : "unknown"
clientIp(forwarded) ==
    IF forwarded.t = "string" /\ Len(forwarded.v) > 0
    THEN forwarded.v[1]
    ELSE "unknown"

(***************************************************************************)
(* History variables of the limiter: what an observer of the admissions    *)
(* records.  They are written from the responses only, never read by the   *)
(* routes.                                                                 *)
(***************************************************************************)
\* the admissions of ip at time t, added to the log
LogAdmission(log, ip, t) ==
    LET mine == IF MapHas(log, ip) THEN log[ip] ELSE EmptyMap
        sofar == IF MapHas(mine, t) THEN mine[t] ELSE 0
    IN  MapSet(log, ip, MapSet(mine, t, sofar + 1))

\* the log without the admissions older than RATE_WINDOW at time t
PruneLog(log, t) ==
    [ip \in DOMAIN log |->
        [u \in {x \in DOMAIN log[ip] : x >= t - RATE_WINDOW} |-> log[ip][u]]]

\* admissions of ip in the interval [now - RATE_WINDOW, now]
AdmittedInLastWindow(ip) ==
    IF MapHas(admitLog, ip) THEN SumOver(admitLog[ip], DOMAIN admitLog[ip]) ELSE 0

\* the reference fixed window: would a request of ip at time t be admitted?
RefOpensWindow(w, ip, t) == ~MapHas(w, ip) \/ t > w[ip].start + RATE_WINDOW

RefAllows(w, ip, t) == RefOpensWindow(w, ip, t) \/ w[ip].admits < RATE_LIMIT

RefAdmit(w, ip, t) ==
    IF RefOpensWindow(w, ip, t)
    THEN MapSet(w, ip, [start |-> t, admits |-> 1])
    ELSE MapSet(w, ip, [start |-> w[ip].start, admits |-> w[ip].admits + 1])

(***************************************************************************)
(* Requests.                                                               *)
(***************************************************************************)
Slots == 1..(IF NumReqs > NumQuoteReqs THEN NumReqs ELSE NumQuoteReqs)

ReqSlots == 1..NumReqs

QuoteSlots == 1..NumQuoteReqs

NoBody == [kind |-> "none", data |-> <<>>, cached |-> FALSE, model |-> ""]

ErrorBody(error) == [kind |-> "error", data |-> <<error>>, cached |-> FALSE, model |-> ""]

IdleReq ==
    [pc |-> "idle", ip |-> "", raw |-> Undefined, symbol |-> Null,
     force |-> FALSE, model |-> "", price |-> 0, began |-> 0,
     status |-> 0, body |-> NoBody,
     looked |-> -1, hit |-> FALSE, fetched |-> 0, wrote |-> FALSE, storedAt |-> -1,
     upstream |-> Undefined, sources |-> <<>>, trace |-> <<>>]

\* NextResponse.json(body, {status}): the request ends
Respond(q, status, body) ==
    [q EXCEPT !.pc = "done", !.status = status, !.body = body,
              !.trace = Append(q.trace, "respond")]

Stage(q, name) == [q EXCEPT !.trace = Append(q.trace, name)]

\* requests are numbered in the order they arrive: slot r takes a request
\* once the slots below it have taken theirs
NextToArrive(r) == \A s \in 1..(r - 1) : req[s].pc # "idle"

\* the raw symbols clients send: "aapl " and "$$$"
RawSymbols == {Str(<<"a", "a", "p", "l", " ">>), Str(<<"$", "$", "$">>)}

\* the x-forwarded-for headers clients send
Proxied == Str(<<"10.0.0.1", "10.0.0.2">>)

(***************************************************************************)
(* Numbers.  A JavaScript number is an IEEE 754 binary64 number, and the   *)
(* arithmetic of the handlers is carried out as the engine does it: every  *)
(* operation computes the exact result and rounds it to the nearest        *)
(* number, a tie to the even mantissa.  A finite number is                 *)
(* [t |-> "double", s, m, e]: the value s * m * 2^e, with s the sign (1 or *)
(* -1) and m a natural number, either zero (then s = 1 and e = 0) or       *)
(* 2^52 <= m < 2^53 with -1074 <= e <= 971, or 0 < m < 2^52 with           *)
(* e = -1074.  The infinities and NaN are values of their own.  A natural  *)
(* number of any size is the sequence of its digits in base LimbBase,      *)
(* lowest first and without high zeros, and an integer is a sign and a     *)
(* natural number.  The two zeros are one value: the program compares      *)
(* numbers and writes them as JSON, and neither tells -0 from 0.  Where a  *)
(* handler rounds to two decimals, Num(n) stands for the number nearest    *)
(* to n / 100.                                                             *)
(***************************************************************************)
NaN == [t |-> "nan", v |-> 0]

Infinite == [t |-> "infinity", v |-> 0]

NegInfinite == [t |-> "infinity", v |-> -1]

LimbBase == 10000

RECURSIVE NatOf(_)
NatOf(n) == IF n = 0 THEN <<>> ELSE <<n % LimbBase>> \o NatOf(n \div LimbBase)

RECURSIVE NatNorm(_)
NatNorm(a) ==
    IF a # <<>> /\ a[Len(a)] = 0 THEN NatNorm(SubSeq(a, 1, Len(a) - 1)) ELSE a

LimbsAfterFirst(a) == IF a = <<>> THEN <<>> ELSE Tail(a)

FirstLimb(a) == IF a = <<>> THEN 0 ELSE a[1]

RECURSIVE NatAddCarry(_, _, _)
NatAddCarry(a, b, carry) ==
    IF a = <<>> /\ b = <<>> THEN NatOf(carry)
    ELSE LET x == FirstLimb(a) + FirstLimb(b) + carry
         IN  <<x % LimbBase>>
             \o NatAddCarry(LimbsAfterFirst(a), LimbsAfterFirst(b), x \div LimbBase)

NatAdd(a, b) == NatAddCarry(a, b, 0)

RECURSIVE NatSubBorrow(_, _, _)
\* a - b - borrow, for a >= b + borrow
NatSubBorrow(a, b, borrow) ==
    IF a = <<>> THEN <<>>
    ELSE LET x == a[1] - FirstLimb(b) - borrow
         IN  <<(x + LimbBase) % LimbBase>>
             \o NatSubBorrow(Tail(a), LimbsAfterFirst(b), IF x < 0 THEN 1 ELSE 0)

NatSub(a, b) == NatNorm(NatSubBorrow(a, b, 0))

RECURSIVE NatCmp(_, _)
\* -1, 0 or 1 as a < b, a = b or a > b
NatCmp(a, b) ==
    IF Len(a) # Len(b) THEN (IF Len(a) < Len(b) THEN -1 ELSE 1)
    ELSE IF a = <<>> THEN 0
    ELSE IF a[Len(a)] # b[Len(b)] THEN (IF a[Len(a)] < b[Len(b)] THEN -1 ELSE 1)
    ELSE NatCmp(SubSeq(a, 1, Len(a) - 1), SubSeq(b, 1, Len(b) - 1))

RECURSIVE NatMulLimb(_, _, _)
\* a * k + carry for one limb k
NatMulLimb(a, k, carry) ==
    IF a = <<>> THEN NatOf(carry)
    ELSE LET x == a[1] * k + carry
         IN  <<x % LimbBase>> \o NatMulLimb(Tail(a), k, x \div LimbBase)

RECURSIVE NatMul(_, _)
NatMul(a, b) ==
    IF a = <<>> \/ b = <<>> THEN <<>>
    ELSE LET rest == NatMul(a, Tail(b))
         IN  NatAdd(NatNorm(NatMulLimb(a, b[1], 0)),
                    IF rest = <<>> THEN <<>> ELSE <<0>> \o rest)

IntOf(n) ==
    [sign |-> IF n < 0 THEN -1 ELSE IF n = 0 THEN 0 ELSE 1,
     mag |-> NatOf(IF n < 0 THEN -n ELSE n)]

IntAdd(x, y) ==
    IF x.sign = 0 THEN y
    ELSE IF y.sign = 0 THEN x
    ELSE IF x.sign = y.sign THEN [sign |-> x.sign, mag |-> NatAdd(x.mag, y.mag)]
    ELSE LET c == NatCmp(x.mag, y.mag)
         IN  IF c = 0 THEN IntOf(0)
             ELSE IF c > 0 THEN [sign |-> x.sign, mag |-> NatSub(x.mag, y.mag)]
             ELSE [sign |-> y.sign, mag |-> NatSub(y.mag, x.mag)]

IntNeg(x) == [sign |-> -x.sign, mag |-> x.mag]

IntMul(x, y) == [sign |-> x.sign * y.sign, mag |-> NatMul(x.mag, y.mag)]

RECURSIVE IntSum(_)
IntSum(xs) == IF xs = <<>> THEN IntOf(0) ELSE IntAdd(Head(xs), IntSum(Tail(xs)))

\* Rounding of an exact ratio to the nearest binary64 number, and the
\* operations of the engine on such numbers.  A value that several places
\* of a definition use is handed on as a parameter.
NatIsZero(a) == a = <<>>

\* most doublings that one multiplication of a limb makes
ShiftStep == 13

\* a * 2^k, at most ShiftStep doublings at a time
RECURSIVE NatShl(_, _)
NatShl(a, k) ==
    IF a = <<>> \/ k = 0 THEN a
    ELSE NatShl(NatMulLimb(a, 2 ^ (IF k >= ShiftStep THEN ShiftStep ELSE k), 0),
                IF k >= ShiftStep THEN k - ShiftStep ELSE 0)

\* the largest d in lo..hi with b * d <= a; lo is such a d
RECURSIVE DivDigit(_, _, _, _)
DivDigit(a, b, lo, hi) ==
    IF lo >= hi THEN lo
    ELSE LET mid == (lo + hi + 1) \div 2
         IN  IF NatCmp(NatNorm(NatMulLimb(b, mid, 0)), a) <= 0
             THEN DivDigit(a, b, mid, hi)
             ELSE DivDigit(a, b, lo, mid - 1)

\* the digit of a quotient below LimbBase: a \div b for a < b * LimbBase
QuotientDigit(a, b) ==
    IF NatCmp(a, b) < 0 THEN 0
    ELSE LET top == b[Len(b)]
             lead == IF Len(a) = Len(b) THEN a[Len(a)]
                     ELSE a[Len(a)] * LimbBase + a[Len(a) - 1]
             least == lead \div (top + 1)
             most == IF lead \div top < LimbBase THEN lead \div top ELSE LimbBase - 1
         IN  DivDigit(a, b, least, most)

\* quotient and remainder of a by b > 0
\* one step of the long division: the digit d of the quotient is put below
\* the digits q found so far, and b * d is taken from cur
DivStep(cur, b, q, d) ==
    [q |-> NatNorm(<<d>> \o q), r |-> NatSub(cur, NatNorm(NatMulLimb(b, d, 0)))]

\* the step for the part cur of a that is being divided
DivFrom(cur, b, q) == DivStep(cur, b, q, QuotientDigit(cur, b))

\* the step for the digits `high` found so far and the next limb of a, which
\* goes below the remainder that is left
DivNext(limb, b, high) ==
    IF high.r = <<>> THEN DivFrom(NatOf(limb), b, high.q)
    ELSE DivFrom(<<limb>> \o high.r, b, high.q)

RECURSIVE NatDivMod(_, _)
NatDivMod(a, b) ==
    IF Len(a) < Len(b) THEN [q |-> <<>>, r |-> a]
    ELSE DivNext(a[1], b, NatDivMod(Tail(a), b))

NatIsOdd(a) == a # <<>> /\ NatDivMod(a, <<2>>).r # <<>>

Two52 == NatShl(<<1>>, 52)

Two53 == NatShl(<<1>>, 53)

FloatZero == [t |-> "double", s |-> 1, m |-> <<>>, e |-> 0]

FloatInfinity(s) == IF s > 0 THEN Infinite ELSE NegInfinite

\* the sign of a number that is not NaN
FloatSign(x) == IF x.t = "infinity" THEN (IF x = Infinite THEN 1 ELSE -1) ELSE x.s

\* p * 2^e doubled until c <= p, for c = 2^52 * q: the doublings are made
\* k at a time, with k doubling while k of them are needed and halving after
RECURSIVE ScaleUpBy(_, _, _, _, _)
ScaleUpBy(p, c, e, k, rising) ==
    IF k = 0 THEN [p |-> p, e |-> e]
    ELSE IF NatCmp(NatShl(p, k - 1), c) < 0
    THEN ScaleUpBy(NatShl(p, k), c, e - k, IF rising THEN 2 * k ELSE k \div 2, rising)
    ELSE ScaleUpBy(p, c, e, k \div 2, FALSE)

ScaleUp(p, c, e) == ScaleUpBy(p, c, e, 16, TRUE)

\* q doubled until p < 2^53 * q, in the same way
RECURSIVE ScaleDownBy(_, _, _, _, _)
ScaleDownBy(p, q, e, k, rising) ==
    IF k = 0 THEN [q |-> q, e |-> e]
    ELSE IF NatCmp(p, NatShl(q, 52 + k)) >= 0
    THEN ScaleDownBy(p, NatShl(q, k), e + k, IF rising THEN 2 * k ELSE k \div 2, rising)
    ELSE ScaleDownBy(p, q, e, k \div 2, FALSE)

ScaleDown(p, q, e) == ScaleDownBy(p, q, e, 16, TRUE)

\* the quotient of p by q > 0 rounded to the nearest integer, a tie to the
\* even one
\* the quotient of a division d by q rounded to the nearest integer: up when
\* twice the remainder compares to q as c says and the tie goes up
NearestOf(d, c, tieUp) == IF c > 0 \/ (c = 0 /\ tieUp) THEN NatAdd(d.q, <<1>>) ELSE d.q

NearestToEven(d, q) == NearestOf(d, NatCmp(NatMulLimb(d.r, 2, 0), q), NatIsOdd(d.q))

NatDivNearest(p, q) == NearestToEven(NatDivMod(p, q), q)

\* the number nearest to s * (p / q) * 2^e below the normal range: a
\* multiple of 2^-1074
SubnormalOf(s, m) ==
    IF m = <<>> THEN FloatZero ELSE [t |-> "double", s |-> s, m |-> m, e |-> -1074]

RoundSubnormal(s, p, q, e) ==
    SubnormalOf(s, NatDivNearest(NatShl(p, IF e + 1074 >= 0 THEN e + 1074 ELSE 0),
                                 NatShl(q, IF e + 1074 >= 0 THEN 0 ELSE -(e + 1074))))

\* the number nearest to s * (p / q) * 2^e, for q > 0: below 2^-1022 the
\* numbers are 2^-1074 apart, and what rounds to 2^1024 or beyond is infinite
\* the number s * m * 2^e of the normal range, or the infinity beyond it
FiniteOrInfinite(s, m, e) ==
    IF e > 971 THEN FloatInfinity(s) ELSE [t |-> "double", s |-> s, m |-> m, e |-> e]

\* a mantissa that the rounding carried to 2^53 is 2^52 one exponent higher
RoundNormal(s, m, e) ==
    IF m = Two53 THEN FiniteOrInfinite(s, Two52, e + 1) ELSE FiniteOrInfinite(s, m, e)

\* the rounding once p and q are scaled to 2^52 <= up.p / denominator < 2^53
RoundScaled(s, p, q, e, denominator, up) ==
    IF up.e < -1074 THEN RoundSubnormal(s, p, q, e)
    ELSE RoundNormal(s, NatDivNearest(up.p, denominator), up.e)

RoundFrom(s, p, q, e, down) ==
    RoundScaled(s, p, q, e, down.q, ScaleUp(p, NatMul(Two52, down.q), down.e))

RoundRatio(s, p, q, e) ==
    IF p = <<>> THEN FloatZero ELSE RoundFrom(s, p, q, e, ScaleDown(p, q, e))

\* the number of an integer
FloatOf(n) == RoundRatio(IF n < 0 THEN -1 ELSE 1, NatOf(IF n < 0 THEN -n ELSE n), <<1>>, 0)

RECURSIVE NatPow10(_)
\* 10^k, by squaring
NatPow10(k) ==
    IF k = 0 THEN <<1>>
    ELSE LET half == NatPow10(k \div 2)
             square == NatMul(half, half)
         IN  IF k % 2 = 1 THEN NatMulLimb(square, 10, 0) ELSE square

\* the number a decimal literal denotes: n / 10^k
FloatOfDecimal(n, k) ==
    RoundRatio(IF n < 0 THEN -1 ELSE 1, NatOf(IF n < 0 THEN -n ELSE n), NatPow10(k), 0)

FloatIsZero(x) == x.t = "double" /\ x.m = <<>>

FloatNeg(x) ==
    IF x.t = "nan" \/ FloatIsZero(x) THEN x
    ELSE IF x.t = "infinity" THEN FloatInfinity(-FloatSign(x))
    ELSE [x EXCEPT !.s = -x.s]

\* 1, 0 or -1 as the finite x is above, at or below the finite y
FloatCmp(x, y) ==
    IF x.m = <<>> THEN (IF y.m = <<>> THEN 0 ELSE -y.s)
    ELSE IF y.m = <<>> THEN x.s
    ELSE IF x.s # y.s THEN x.s
    ELSE IF x.e # y.e THEN (IF x.e > y.e THEN x.s ELSE -x.s)
    ELSE x.s * NatCmp(x.m, y.m)

\* the number nearest to x * 2^e for an integer x of any size
FloatOfScaled(x, e) == RoundRatio(IF x.sign < 0 THEN -1 ELSE 1, x.mag, <<1>>, e)

\* x + y
FloatAdd(x, y) ==
    IF x.t = "nan" \/ y.t = "nan" THEN NaN
    ELSE IF x.t = "infinity" THEN (IF y.t = "infinity" /\ y # x THEN NaN ELSE x)
    ELSE IF y.t = "infinity" THEN y
    ELSE IF x.m = <<>> THEN y
    ELSE IF y.m = <<>> THEN x
    ELSE IF x.e - y.e > 60 THEN x
    ELSE IF y.e - x.e > 60 THEN y
    ELSE LET e == IF x.e < y.e THEN x.e ELSE y.e
         IN  FloatOfScaled(IntAdd([sign |-> x.s, mag |-> NatShl(x.m, x.e - e)],
                                  [sign |-> y.s, mag |-> NatShl(y.m, y.e - e)]), e)

FloatSub(x, y) == FloatAdd(x, FloatNeg(y))

\* x * y
FloatMul(x, y) ==
    IF x.t = "nan" \/ y.t = "nan" THEN NaN
    ELSE IF x.t = "infinity" \/ y.t = "infinity"
    THEN (IF FloatIsZero(x) \/ FloatIsZero(y)
          THEN NaN ELSE FloatInfinity(FloatSign(x) * FloatSign(y)))
    ELSE RoundRatio(x.s * y.s, NatMul(x.m, y.m), <<1>>, x.e + y.e)

\* x / y
FloatDiv(x, y) ==
    IF x.t = "nan" \/ y.t = "nan" THEN NaN
    ELSE IF x.t = "infinity"
    THEN (IF y.t = "infinity" THEN NaN ELSE FloatInfinity(FloatSign(x) * FloatSign(y)))
    ELSE IF y.t = "infinity" THEN FloatZero
    ELSE IF y.m = <<>> THEN (IF x.m = <<>> THEN NaN ELSE FloatInfinity(x.s))
    ELSE RoundRatio(x.s * y.s, x.m, y.m, x.e - y.e)

\* the integer square root of a > 0 by Newton's iteration from x >= sqrt(a)
RECURSIVE NatSqrtFrom(_, _)
NatSqrtNext(a, x, y) == IF NatCmp(y, x) >= 0 THEN x ELSE NatSqrtFrom(a, y)

NatSqrtFrom(a, x) == NatSqrtNext(a, x, NatDivMod(NatAdd(x, NatDivMod(a, x).q), <<2>>).q)

\* the number nearest to sqrt(a) * 2^e for the integer square root r of a:
\* 2r over 2, with a half added when r is short of the root
RoundRoot(a, r, e) ==
    RoundRatio(1, IF NatMul(r, r) = a THEN NatMulLimb(r, 2, 0)
                  ELSE NatAdd(NatMulLimb(r, 2, 0), <<1>>),
               <<2>>, e)

\* sqrt(m * 2^e) for an even e - shift, the mantissa widened by shift bits
RootOfShifted(m, e, shift) ==
    RoundRoot(NatShl(m, shift), NatSqrtFrom(NatShl(m, shift), NatShl(<<1>>, shift \div 2 + 27)),
              (e - shift) \div 2)

\* Math.sqrt(x)
FloatSqrt(x) ==
    IF x.t = "nan" THEN NaN
    ELSE IF FloatIsZero(x) THEN x
    ELSE IF FloatSign(x) < 0 THEN NaN
    ELSE IF x.t = "infinity" THEN x
    ELSE LET odd == x.e % 2 # 0
             \* a number below the normal range has a short mantissa
             wide == IF NatCmp(x.m, Two52) < 0 THEN 52 ELSE 0
         IN  RootOfShifted(x.m, x.e, (IF odd THEN 59 ELSE 58) + wide)

\* the integer of sign s and magnitude mag
IntOfMagnitude(s, mag) == IF mag = <<>> THEN IntOf(0) ELSE [sign |-> s, mag |-> mag]

\* the quotient of a division d by unit as Math.round rounds it: a tie goes
\* up, which is away from zero for s = 1 and towards zero for s = -1
NearestTieUp(s, d, unit) ==
    IntOfMagnitude(s, NearestOf(d, NatCmp(NatMulLimb(d.r, 2, 0), unit), s > 0))

\* Math.round(x) of a finite x, as an integer of any size: the nearest
\* integer, a tie going up
FloatRound(x) ==
    IF x.m = <<>> THEN IntOf(0)
    ELSE IF x.e >= 0 THEN [sign |-> x.s, mag |-> NatShl(x.m, x.e)]
    ELSE IF x.e < -54 THEN IntOf(0)
    ELSE NearestTieUp(x.s, NatDivMod(x.m, NatShl(<<1>>, -x.e)), NatShl(<<1>>, -x.e))

\* the integer of a natural number that the checker's integers hold
RECURSIVE NatToInteger(_)
NatToInteger(a) == IF a = <<>> THEN 0 ELSE a[1] + LimbBase * NatToInteger(Tail(a))

\* the number of an integer of any size
FloatOfInteger(x) == FloatOfScaled(x, 0)

Float100 == FloatOf(100)

\* reduce((a, b) => a + b, 0) from entry i on, with the sum `a` of the
\* entries before it; a sum that is NaN stays NaN
RECURSIVE FloatSumFrom(_, _, _)
FloatSumFrom(a, xs, i) ==
    IF a.t = "nan" \/ i > Len(xs) THEN a
    ELSE FloatSumFrom(FloatAdd(a, xs[i]), xs, i + 1)

\* the sum of reduce((a, b) => a + b, 0)
FloatSum(xs) == FloatSumFrom(FloatZero, xs, 1)

\* largest magnitude, in hundredths, of a rounded number that is given as a
\* count of hundredths; a larger one is given as the binary64 number it is
HundredthsCeiling == 1000000000

\* Math.round(x * 100) / 100: Num(n) stands for the number nearest to n / 100
HundredthsOf(n) ==
    IF NatCmp(n.mag, NatOf(HundredthsCeiling)) <= 0
    THEN Num(n.sign * NatToInteger(n.mag))
    ELSE FloatDiv(FloatOfInteger(n), Float100)

\* Math.round(x * 100) / 100: NaN and the infinities come back as they are,
\* and so does the infinity of a product x * 100 that overflows
RoundedHundredths(x) ==
    LET product == IF x.t # "double" THEN x ELSE FloatMul(x, Float100)
    IN  IF product.t # "double" THEN product ELSE HundredthsOf(FloatRound(product))

\* route.ts line 48: const riskFreeRate = 0.0002
RiskFreeRate == FloatOfDecimal(2, 4)

\* route.ts line 52: the ratio is annualized with the square root of 252
TradingDays == 252

\* route.ts lines 31-35: (prices[i] - prices[i - 1]) / prices[i - 1]
DailyReturns(price) ==
    [i \in 1..(Len(price) - 1) |->
        FloatDiv(FloatSub(price[i + 1], price[i]), price[i])]

\* route.ts lines 40 and 44: reduce((a, b) => a + b, 0) / returns.length
MeanOf(xs) == FloatDiv(FloatSum(xs), FloatOf(Len(xs)))

\* Math.pow(x, 2)
Squared(x) == FloatMul(x, x)

\* route.ts line 43
SquaredDiffs(returns, avgReturn) ==
    [i \in 1..Len(returns) |-> Squared(FloatSub(returns[i], avgReturn))]

\* route.ts lines 51-54
AnnualizedSharpe(avgReturn, stdDev) ==
    IF FloatIsZero(stdDev) THEN Num(0)
    ELSE RoundedHundredths(
             FloatMul(FloatDiv(FloatSub(avgReturn, RiskFreeRate), stdDev),
                      FloatSqrt(FloatOf(TradingDays))))

\* route.ts lines 43-45: the standard deviation of the returns
SharpeOfMean(returns, avgReturn) ==
    AnnualizedSharpe(avgReturn, FloatSqrt(MeanOf(SquaredDiffs(returns, avgReturn))))

\* route.ts lines 40-54
SharpeOfReturns(returns) == SharpeOfMean(returns, MeanOf(returns))

\* route.ts lines 27-55; prices in thousandths
calculateSharpeRatio(prices) ==
    IF Len(prices) < 2 THEN Num(0)
    ELSE SharpeOfReturns(
             DailyReturns([i \in 1..Len(prices) |-> FloatOfDecimal(prices[i], 3)]))

\* the binary64 number of a number of the model
FloatOfNumber(x) == IF x.t = "number" THEN FloatOfDecimal(x.v, 2) ELSE x

\* x > y as JavaScript compares numbers: false on NaN
FloatGreater(x, y) ==
    IF x.t = "nan" \/ y.t = "nan" THEN FALSE
    ELSE IF x.t = "infinity" THEN x = Infinite /\ y # Infinite
    ELSE IF y.t = "infinity" THEN y = NegInfinite
    ELSE FloatCmp(x, y) > 0

\* x > y for numbers of the model; two counts of hundredths compare as the
\* numbers they stand for
Greater(x, y) ==
    IF x.t = "number" /\ y.t = "number" THEN x.v > y.v
    ELSE FloatGreater(FloatOfNumber(x), FloatOfNumber(y))

\* determineTrend with the first comparison not strict: 0.5 is bullish
determineTrend_FromHalf(sharpeRatio) ==
    IF sharpeRatio.t # "nan" /\ ~Greater(Num(50), sharpeRatio) THEN "bullish"
    ELSE IF Greater(Num(0), sharpeRatio) THEN "bearish"
    ELSE "neutral"

\* route.ts lines 57-61; a comparison with NaN is false
determineTrend(sharpeRatio) ==
    IF Greater(sharpeRatio, Num(50)) THEN "bullish"
    ELSE IF Greater(Num(0), sharpeRatio) THEN "bearish"
    ELSE "neutral"

(***************************************************************************)
(* Quote route: GET /api/stock/[symbol]                                    *)
(***************************************************************************)
\* Prices are counted in thousandths of the currency unit, as the decimal
\* numbers the provider writes, and the rounded fields of a quote in
\* hundredths; a missing number of the chart's meta block is 0, which the ||
\* of the handler treats as it treats undefined.

\* the number a price of x thousandths is
PriceOf(x) == FloatOfDecimal(x, 3)

\* Math.round(x * 100) / 100 of a price of x thousandths, in hundredths
RoundCents(x) == RoundedHundredths(PriceOf(x)).v

\* a || b on numbers
OrElse(a, b) == IF a # 0 THEN a ELSE b

\* lines 212 and 221: Math.round(changePercent * 100) / 100 with
\* changePercent = (change / previousClose) * 100, in hundredths of a percent
RoundedPercent(change, previousClose) ==
    RoundedHundredths(FloatMul(FloatDiv(change, previousClose), Float100))

\* lines 218-227: the figures of a quote whose change and Sharpe ratio are
\* computed
FiguresOf(currentPrice, previousClose, change, sharpeRatio) ==
    [currentPrice |-> RoundCents(currentPrice),
     previousClose |-> RoundCents(previousClose),
     change |-> RoundedHundredths(change).v,
     changePercent |-> RoundedPercent(change, PriceOf(previousClose)),
     sharpeRatio |-> sharpeRatio,
     trend |-> determineTrend(sharpeRatio)]

\* the figures of a quote with the change rounded down instead of to nearest
QuoteFigures_ChangeTruncated(currentPrice, previousClose, closePrices) ==
    [FiguresOf(currentPrice, previousClose,
               FloatSub(PriceOf(currentPrice), PriceOf(previousClose)),
               calculateSharpeRatio(closePrices))
        EXCEPT !.change = (currentPrice - previousClose) \div 10]

\* lines 211-213 and 218-227 (lines 105-107 and 112-121 of the demo data)
QuoteFigures(currentPrice, previousClose, closePrices) ==
    FiguresOf(currentPrice, previousClose,
              FloatSub(PriceOf(currentPrice), PriceOf(previousClose)),
              calculateSharpeRatio(closePrices))

\* line 192: the bar has its four prices
IsComplete(bar) ==
    /\ bar.open.t # "null"
    /\ bar.high.t # "null"
    /\ bar.low.t # "null"
    /\ bar.close.t # "null"

RECURSIVE ClosesOf(_)
\* lines 185-203: the closes of the complete bars
ClosesOf(bars) ==
    IF bars = <<>> THEN <<>>
    ELSE IF IsComplete(Head(bars)) THEN <<Head(bars).close.v>> \o ClosesOf(Tail(bars))
    ELSE ClosesOf(Tail(bars))

\* line 209
CurrentPriceOf(meta, closePrices) ==
    OrElse(meta.regularMarketPrice, closePrices[Len(closePrices)])

\* line 210: closePrices[length - 2] is undefined for a single close
PreviousCloseOf(meta, closePrices) ==
    LET n == Len(closePrices)
    IN  OrElse(meta.chartPreviousClose,
               OrElse(meta.previousClose,
                      OrElse(IF n >= 2 THEN closePrices[n - 1] ELSE 0,
                             CurrentPriceOf(meta, closePrices))))

\* line 217: the name of a real quote
NameOf(meta, symbol) ==
    IF meta.longName # <<>> THEN meta.longName
    ELSE IF meta.shortName # <<>> THEN meta.shortName
    ELSE symbol

\* lines 209-213: the figures of the chart result
ChartFigures(result) ==
    LET closePrices == ClosesOf(result.bars)
    IN  QuoteFigures(CurrentPriceOf(result.meta, closePrices),
                     PreviousCloseOf(result.meta, closePrices),
                     closePrices)

\* lines 215-228: the StockData of a chart result with a complete bar
StockData(symbol, result, figures) ==
    [symbol |-> symbol, name |-> NameOf(result.meta, symbol), figures |-> figures]

DemoMark == <<" ", "I", "n", "c", ".", " ", "(", "D", "e", "m", "o", ")">>

\* lines 103-107: the figures of the demo data; prices holds the five closes
\* drawn with Math.random, none of them 0
DemoFigures(prices) ==
    QuoteFigures(prices[Len(prices)], prices[Len(prices) - 1], prices)

\* generateDemoData with a name that does not say the data is made up
generateDemoData_Unmarked(symbol, figures) ==
    [symbol |-> ToUpperCase(symbol),
     name |-> ToUpperCase(symbol),
     figures |-> figures]

\* generateDemoData(symbol), lines 74-123
generateDemoData(symbol, figures) ==
    [symbol |-> ToUpperCase(symbol),
     name |-> ToUpperCase(symbol) \o DemoMark,
     figures |-> figures]

\* part_004 lines 40-64
validateYahooResponse(data) ==
    /\ data.t = "object"
    /\ data.chart.t = "object"
    /\ data.chart.result.t = "array"
    /\ Len(data.chart.result.items) > 0
    /\ data.chart.result.items[1].meta.t = "object"

\* the chart response of the provider
Bar(close) ==
    [open |-> Num(close), high |-> Num(close), low |-> Num(close), close |-> Num(close)]

HoleBar(close) == [Bar(close) EXCEPT !.low = Null]

Meta(price, chartPrevious, previous, longName, shortName) ==
    [t |-> "object", regularMarketPrice |-> price, chartPreviousClose |-> chartPrevious,
     previousClose |-> previous, longName |-> longName, shortName |-> shortName]

ChartResult(meta, bars) == [meta |-> meta, bars |-> bars]

ChartBody(results) ==
    [t |-> "object",
     chart |-> [t |-> "object", result |-> [t |-> "array", items |-> results]]]

Unparsable == [t |-> "unparsable"]

Rejected == [t |-> "reject"]

Response(ok, body) == [t |-> "response", ok |-> ok, body |-> body]

AppleName == <<"A", "p", "p", "l", "e", " ", "I", "n", "c", ".">>

\* the charts the server is given: a chart with its meta block filled in, and
\* one of a price below a cent that has only its bars
ServedResults ==
    {ChartResult(Meta(150637, 150003, 0, AppleName, <<>>),
                 <<Bar(149004), HoleBar(150000), Bar(150003), Bar(150633)>>),
     ChartResult(Meta(0, 0, 0, <<>>, <<>>), <<Bar(7), Bar(13)>>)}

\* the bodies that fail the validation, or have no complete bar
UnusableBodies ==
    {Null,
     [t |-> "string"],
     [t |-> "object", chart |-> Null],
     [t |-> "object", chart |-> [t |-> "object", result |-> Null]],
     ChartBody(<<>>),
     ChartBody(<<ChartResult(Null, <<Bar(150003)>>)>>),
     ChartBody(<<ChartResult(Meta(150637, 150003, 0, AppleName, <<>>), <<>>)>>),
     ChartBody(<<ChartResult(Meta(150637, 150003, 0, AppleName, <<>>),
                             <<HoleBar(150003)>>)>>)}

QuoteResponses ==
    {Rejected, Response(TRUE, Unparsable)}
    \cup {Response(FALSE, ChartBody(<<r>>)) : r \in ServedResults}
    \cup {Response(TRUE, b) : b \in UnusableBodies}
    \cup {Response(TRUE, ChartBody(<<r>>)) : r \in ServedResults}

\* the closes Math.random gives the demo data of the server
ServedDraws ==
    {<<150003, 151504, 149997, 150633, 151007>>,
     <<249004, 248003, 249997, 250633, 249007>>}

ServedChartFigures == [r \in ServedResults |-> ChartFigures(r)]

ServedDemoFigures == [d \in ServedDraws |-> DemoFigures(d)]

\* lines 129-139: the limiter, before params is awaited
QuoteBegin(r, forwarded, raw) ==
    /\ route = "quote"
    /\ req[r].pc = "idle"
    /\ LET ip == clientIp(forwarded)
           res == checkRateLimit(rateLimitMap, ip, now)
           q == Stage([IdleReq EXCEPT !.ip = ip, !.raw = raw], "ratelimit")
       IN  /\ rateLimitMap' = res.map
           /\ IF res.allowed
              THEN /\ req' = [req EXCEPT ![r] = [q EXCEPT !.pc = "params"]]
                   /\ admitLog' = LogAdmission(admitLog, ip, now)
                   /\ window' = RefAdmit(window, ip, now)
              ELSE /\ req' = [req EXCEPT ![r] =
                                 Respond(q, 429, ErrorBody("Rate limit exceeded"))]
                   /\ UNCHANGED <<admitLog, window>>
    /\ UNCHANGED <<route, now, env, caches, harness>>

\* QuoteValidate that answers an invalid symbol with the error body and no
\* status of its own
QuoteValidate_ErrorWithoutStatus(r) ==
    /\ route = "quote"
    /\ req[r].pc = "params"
    /\ LET symbol == validateSymbol(req[r].raw)
           q == Stage([req[r] EXCEPT !.symbol = symbol], "validate")
       IN  req' = [req EXCEPT ![r] =
                IF symbol = Null
                THEN Respond(q, 200, ErrorBody("Invalid symbol"))
                ELSE Stage([q EXCEPT !.pc = "fetch", !.fetched = q.fetched + 1],
                           "fetch")]
    /\ UNCHANGED <<route, now, env, limiter, caches, harness>>

\* lines 141-160: validateSymbol, then the chart request is issued
QuoteValidate(r) ==
    /\ route = "quote"
    /\ req[r].pc = "params"
    /\ LET symbol == validateSymbol(req[r].raw)
           q == Stage([req[r] EXCEPT !.symbol = symbol], "validate")
       IN  req' = [req EXCEPT ![r] =
                IF symbol = Null
                THEN Respond(q, 400, ErrorBody("Invalid symbol"))
                ELSE Stage([q EXCEPT !.pc = "fetch", !.fetched = q.fetched + 1],
                           "fetch")]
    /\ UNCHANGED <<route, now, env, limiter, caches, harness>>

\* the data answered for the provider's response: the quote of its first
\* chart result, or `demo` when the fetch fails, the response is not ok, the
\* body is not the chart the validation asks for, or no bar is complete
QuoteData(symbol, response, demo) ==
    IF response.t = "reject" THEN demo
    ELSE IF ~response.ok THEN demo
    ELSE IF response.body.t = "unparsable" THEN demo
    ELSE IF ~validateYahooResponse(response.body) THEN demo
    ELSE LET result == response.body.chart.result.items[1]
         IN  IF Len(ClosesOf(result.bars)) = 0 THEN demo
             ELSE StockData(symbol, result, ServedChartFigures[result])

\* lines 160-237: the chart response is handled; every exception ends in the
\* catch block's demo data
QuoteReply(r, response, draw) ==
    /\ route = "quote"
    /\ req[r].pc = "fetch"
    /\ LET q == [req[r] EXCEPT !.upstream = response]
       IN  req' = [req EXCEPT ![r] =
                Respond(q, 200,
                        [kind |-> "quote",
                         data |-> QuoteData(q.symbol.v, response,
                                            generateDemoData(q.symbol.v,
                                                             ServedDemoFigures[draw])),
                         cached |-> FALSE, model |-> ""])]
    /\ UNCHANGED <<route, now, env, limiter, caches, harness>>

\* the response has been delivered: the slot takes the next request
Finish(r) ==
    /\ route = "quote"
    /\ req[r].pc = "done"
    /\ req' = [req EXCEPT ![r] = IdleReq]
    /\ UNCHANGED <<route, now, env, limiter, caches, harness>>

\* time passes
Advance ==
    /\ route # "enhanced"
    /\ now + ClockStep(route) <= MaxTicks * ClockStep(route)
    /\ now' = now + ClockStep(route)
    /\ admitLog' = PruneLog(admitLog, now')
    /\ UNCHANGED <<route, env, rateLimitMap, window, caches, req, harness>>

InitServer ==
    /\ now = 0
    /\ rateLimitMap = EmptyMap
    /\ admitLog = EmptyMap
    /\ window = EmptyMap
    /\ newsCache = EmptyMap
    /\ indicatorsCache = EmptyMap
    /\ analysisCache = EmptyMap
    /\ cachedData = Null
    /\ cachedRate = Null
    /\ cacheTime = 0
    /\ alphaVantageCache = EmptyMap
    /\ arg = Undefined
    /\ ret = Pending
    /\ req = [r \in Slots |-> IdleReq]

AllKeys == [openRouterKey |-> TRUE, alphaVantageKey |-> TRUE]

InitCommon ==
    /\ InitServer
    /\ symIn = Undefined
    /\ symOut = Pending

InitQuote ==
    /\ InitCommon
    /\ route = "quote"
    /\ env = AllKeys

NextQuote ==
    \/ \E r \in QuoteSlots, raw \in RawSymbols : QuoteBegin(r, Proxied, raw)
    \/ \E r \in QuoteSlots : QuoteValidate(r)
    \/ \E r \in QuoteSlots, response \in QuoteResponses, draw \in ServedDraws :
           QuoteReply(r, response, draw)
    \/ \E r \in QuoteSlots : Finish(r)
    \/ Advance

SpecQuote == InitQuote /\ [][NextQuote]_vars

UpperLetters ==
    <<"A", "B", "C", "D", "E", "F", "G", "H", "I", "J", "K", "L", "M", "N", "O", "P", "Q", "R", "S", "T", "U", "V", "W", "X", "Y", "Z">>

LowerLetters ==
    <<"a", "b", "c", "d", "e", "f", "g", "h", "i", "j", "k", "l", "m", "n", "o", "p", "q", "r", "s", "t", "u", "v", "w", "x", "y", "z">>

\* String.prototype.toLowerCase on one character
LowerOf(c) ==
    IF \E i \in 1..Len(UpperLetters) : UpperLetters[i] = c
    THEN LowerLetters[CHOOSE i \in 1..Len(UpperLetters) : UpperLetters[i] = c]
    ELSE c

ToLowerCase(s) == [i \in 1..Len(s) |-> LowerOf(s[i])]

\* String.prototype.includes
Includes(s, sub) ==
    \E i \in 1..(Len(s) - Len(sub) + 1) : SubSeq(s, i, i + Len(sub) - 1) = sub

Bullish == <<"b", "u", "l", "l", "i", "s", "h">>

Positive == <<"p", "o", "s", "i", "t", "i", "v", "e">>

Bearish == <<"b", "e", "a", "r", "i", "s", "h">>

Negative == <<"n", "e", "g", "a", "t", "i", "v", "e">>

\* news/route.ts lines 57-65
mapSentiment(label) ==
    LET lower == ToLowerCase(label)
    IN  IF Includes(lower, Bullish) \/ Includes(lower, Positive) THEN "Bullish"
        ELSE IF Includes(lower, Bearish) \/ Includes(lower, Negative) THEN "Bearish"
        ELSE "Neutral"

\* enriched AI route, lines 248-253
mapSentimentLabel(label) ==
    LET lower == ToLowerCase(label)
    IN  IF Includes(lower, Bullish) THEN "Bullish"
        ELSE IF Includes(lower, Bearish) THEN "Bearish"
        ELSE "Neutral"

(***************************************************************************)
(* News route: GET /api/stock/[symbol]/news                                *)
(***************************************************************************)
\* one entry of the provider's feed: its title, what its ticker_sentiment
\* says of the requested symbol ("none": no ticker_sentiment at all, "high":
\* relevance_score > 0.1, "low": not above 0.1 or another ticker), the label
\* and score its ticker_sentiment gives the symbol, and its overall label and
\* score; a label or score is a text or undefined
FeedEntry(title, relevance, tickerLabel, tickerScore, overallLabel, overallScore) ==
    [title |-> title, relevance |-> relevance,
     ticker_sentiment_label |-> tickerLabel, ticker_sentiment_score |-> tickerScore,
     overall_sentiment_label |-> overallLabel, overall_sentiment_score |-> overallScore]

FeedItem(title, relevance) ==
    FeedEntry(title, relevance,
              Str(<<"B", "u", "l", "l", "i", "s", "h">>), Str(<<"0", ".", "2", "5">>),
              Str(<<"N", "e", "u", "t", "r", "a", "l">>), Str(<<"0", ".", "1">>))

Feeds ==
    {<<FeedItem("t1", "high"), FeedItem("t2", "low")>>,
     <<FeedItem("t3", "none")>>}

\* the upstream outcomes of the news request: a non-2xx status, a provider
\* limit note, a body without feed, a feed, or a rejected fetch
NewsOutcomes ==
    {[k |-> "status", status |-> 503, feed |-> <<>>],
     [k |-> "note", status |-> 200, feed |-> <<>>],
     [k |-> "no-feed", status |-> 200, feed |-> <<>>],
     [k |-> "reject", status |-> 0, feed |-> <<>>]}
    \cup {[k |-> "feed", status |-> 200, feed |-> f] : f \in Feeds}

IsRelevant(item) == item.relevance \in {"none", "high"}

DecimalDigits == <<"0", "1", "2", "3", "4", "5", "6", "7", "8", "9">>

IsDigit(c) == \E i \in 1..10 : DecimalDigits[i] = c

DigitValue(c) == (CHOOSE i \in 1..10 : DecimalDigits[i] = c) - 1

RECURSIVE LeadingDigits(_)
\* how many digits the text begins with
LeadingDigits(s) ==
    IF s # <<>> /\ IsDigit(s[1]) THEN 1 + LeadingDigits(Tail(s)) ELSE 0

RECURSIVE LeadingZeros(_)
LeadingZeros(s) ==
    IF s # <<>> /\ s[1] = "0" THEN 1 + LeadingZeros(Tail(s)) ELSE 0

RECURSIVE LeadingBlanks(_)
\* how many white space characters the text begins with
LeadingBlanks(s) ==
    IF s # <<>> /\ IsWhitespace(s[1]) THEN 1 + LeadingBlanks(Tail(s)) ELSE 0

RECURSIVE NumberOf(_)
\* the number a run of digits writes
NumberOf(digits) ==
    IF digits = <<>> THEN 0
    ELSE 10 * NumberOf(SubSeq(digits, 1, Len(digits) - 1)) + DigitValue(digits[Len(digits)])

RECURSIVE NatPow5(_)
\* 5^k, by squaring
NatPow5(k) ==
    IF k = 0 THEN <<1>>
    ELSE LET half == NatPow5(k \div 2)
             square == NatMul(half, half)
         IN  IF k % 2 = 1 THEN NatMulLimb(square, 5, 0) ELSE square

RECURSIVE NatOfDigits(_)
\* the natural number a run of digits of any length writes
NatOfDigits(digits) ==
    IF digits = <<>> THEN <<>>
    ELSE NatAdd(NatMulLimb(NatOfDigits(SubSeq(digits, 1, Len(digits) - 1)), 10, 0),
                NatOf(DigitValue(digits[Len(digits)])))

Drop(s, n) == SubSeq(s, n + 1, Len(s))

InfinityText == <<"I", "n", "f", "i", "n", "i", "t", "y">>

\* the number nearest to the literal of sign `sign` whose digits write
\* mantissa, `significant` of them from the first that is not 0, times
\* 10^scale, that is mantissa * 5^scale * 2^scale
LiteralValue(sign, mantissa, significant, scale) ==
    IF significant = 0 THEN FloatZero
    \* 10^309 and more is beyond the largest number, and less than
    \* 10^-324 is nearest to 0
    ELSE IF significant - 1 + scale >= 309 THEN FloatInfinity(sign)
    ELSE IF significant + scale <= -324 THEN FloatZero
    ELSE IF scale >= 0
    THEN RoundRatio(sign, NatMul(mantissa, NatPow5(scale)), <<1>>, scale)
    ELSE RoundRatio(sign, mantissa, NatPow5(-scale), scale)

\* the exponent written at the head of `rest`, the text after the digits of
\* a literal: 0 unless rest is e or E, a sign or none, and digits
ExponentOf(rest) ==
    LET afterE == IF rest # <<>> /\ rest[1] \in {"e", "E"} THEN Tail(rest) ELSE <<>>
        eSigned == afterE # <<>> /\ afterE[1] \in {"+", "-"}
        eDigits == IF eSigned THEN Tail(afterE) ELSE afterE
    IN  (IF eSigned /\ afterE[1] = "-" THEN -1 ELSE 1)
            * NumberOf(SubSeq(eDigits, 1, LeadingDigits(eDigits)))

\* the literal with n1 digits before the point and n2 after it at the head
\* of u; afterInt is u after the first n1 digits
LiteralOf(sign, u, n1, afterInt, n2) ==
    IF n1 + n2 = 0 THEN NaN
    ELSE LiteralValue(sign,
                      NatNorm(NatOfDigits(SubSeq(u, 1, n1) \o SubSeq(afterInt, 2, n2 + 1))),
                      n1 + n2 - LeadingZeros(SubSeq(u, 1, n1) \o SubSeq(afterInt, 2, n2 + 1)),
                      ExponentOf(IF afterInt # <<>> /\ afterInt[1] = "."
                                 THEN Drop(afterInt, n2 + 1) ELSE afterInt) - n2)

\* the digits after a point at the head of afterInt
FractionDigits(afterInt) ==
    IF afterInt # <<>> /\ afterInt[1] = "." THEN LeadingDigits(Tail(afterInt)) ELSE 0

\* the literal at the head of u, a text without sign
UnsignedLiteral(sign, u, n1) ==
    LiteralOf(sign, u, n1, Drop(u, n1), FractionDigits(Drop(u, n1)))

\* parseFloat of a text: the longest prefix, after leading white space, that
\* is a decimal literal (sign, digits, point, digits, exponent) or Infinity;
\* NaN when there is none.  The result is the number nearest to the literal
parseFloat(s) ==
    LET t == Drop(s, LeadingBlanks(s))
        sign == IF t # <<>> /\ t[1] = "-" THEN -1 ELSE 1
        u == IF t # <<>> /\ t[1] \in {"+", "-"} THEN Tail(t) ELSE t
    IN  IF Len(u) >= 8 /\ SubSeq(u, 1, 8) = InfinityText
        THEN IF sign = 1 THEN Infinite ELSE NegInfinite
        ELSE UnsignedLiteral(sign, u, LeadingDigits(u))

\* a || b || c on texts
FirstTruthy(a, b, c) == IF Truthy(a) THEN a ELSE IF Truthy(b) THEN b ELSE c

\* lines 155-169: the NewsItem of a feed entry; symbolSentiment is found when
\* the entry's ticker_sentiment names the symbol
NewsItem(item) ==
    LET found == item.relevance = "high"
        tickerLabel == IF found THEN item.ticker_sentiment_label ELSE Undefined
        tickerScore == IF found THEN item.ticker_sentiment_score ELSE Undefined
    IN  [title |-> item.title,
         sentiment |-> mapSentiment(
             FirstTruthy(tickerLabel, item.overall_sentiment_label,
                         Str(<<"N", "e", "u", "t", "r", "a", "l">>)).v),
         sentimentScore |-> parseFloat(
             FirstTruthy(tickerScore, item.overall_sentiment_score, Str(<<"0">>)).v)]

\* lines 140-169: data.feed.filter(...).slice(0, 10).map(...)
NewsItems(feed) ==
    LET kept == SelectSeq(feed, IsRelevant)
        first == SubSeq(kept, 1, IF Len(kept) < 10 THEN Len(kept) ELSE 10)
    IN  [i \in 1..Len(first) |-> NewsItem(first[i])]

\* the items of the provider's feeds, computed once
ServedNewsItems == [feed \in Feeds |-> NewsItems(feed)]

\* lines 140-169, for any feed
MappedItems(feed) == IF feed \in Feeds THEN ServedNewsItems[feed] ELSE NewsItems(feed)

\* JSON.stringify of a number: NaN and the infinities are written null
JsonNumber(x) == IF x.t \in {"number", "double"} THEN x ELSE Null

\* the items as NextResponse.json writes them
JsonItems(items) ==
    [i \in 1..Len(items) |->
        [items[i] EXCEPT !.sentimentScore = JsonNumber(items[i].sentimentScore)]]

NewsBody(items, cached) ==
    [kind |-> "news", data |-> JsonItems(items), cached |-> cached, model |-> ""]

\* IsFresh without the age test: an entry never expires
IsFresh_NeverExpires(cache, key, t, ttl) == MapHas(cache, key)

\* cache.get(key) and the test now - timestamp < TTL
IsFresh(cache, key, t, ttl) == MapHas(cache, key) /\ t - cache[key].timestamp < ttl

\* NewsBegin with the symbol validated ahead of the limiter
NewsBegin_ValidatorFirst(r, forwarded, raw) ==
    /\ route = "news"
    /\ req[r].pc = "idle"
    /\ NextToArrive(r)
    /\ LET ip == clientIp(forwarded)
           res == checkRateLimit(rateLimitMap, ip, now)
           v == Stage([IdleReq EXCEPT !.ip = ip, !.raw = raw],
                      "validate")
           q == Stage(v, "ratelimit")
       IN  IF validateSymbol(raw) = Null
           THEN /\ req' = [req EXCEPT ![r] = Respond(v, 400, ErrorBody("Invalid symbol"))]
                /\ UNCHANGED <<rateLimitMap, admitLog, window>>
           ELSE /\ rateLimitMap' = res.map
                /\ IF res.allowed
                   THEN /\ req' = [req EXCEPT ![r] = [q EXCEPT !.pc = "params"]]
                        /\ admitLog' = LogAdmission(admitLog, ip, now)
                        /\ window' = RefAdmit(window, ip, now)
                   ELSE /\ req' = [req EXCEPT ![r] =
                                      Respond(q, 429, ErrorBody("Rate limit exceeded"))]
                        /\ UNCHANGED <<admitLog, window>>
    /\ UNCHANGED <<route, now, env, caches, harness>>

\* NewsBegin with the limiter's read and write split by an await: the write
\* of a request that ran while another was at an await point is lost
NewsBegin_SplitByAwait(r, forwarded, raw) ==
    /\ route = "news"
    /\ req[r].pc = "idle"
    /\ NextToArrive(r)
    /\ LET ip == clientIp(forwarded)
           res == checkRateLimit(rateLimitMap, ip, now)
           q == Stage([IdleReq EXCEPT !.ip = ip, !.raw = raw],
                      "ratelimit")
       IN  /\ rateLimitMap' = IF \E s \in ReqSlots : req[s].pc \in {"params", "fetch"}
                              THEN rateLimitMap
                              ELSE res.map
           /\ IF res.allowed
              THEN /\ req' = [req EXCEPT ![r] = [q EXCEPT !.pc = "params"]]
                   /\ admitLog' = LogAdmission(admitLog, ip, now)
                   /\ window' = RefAdmit(window, ip, now)
              ELSE /\ req' = [req EXCEPT ![r] =
                                 Respond(q, 429, ErrorBody("Rate limit exceeded"))]
                   /\ UNCHANGED <<admitLog, window>>
    /\ UNCHANGED <<route, now, env, caches, harness>>

\* lines 71-80: the limiter, before params is awaited
NewsBegin(r, forwarded, raw) ==
    /\ route = "news"
    /\ req[r].pc = "idle"
    /\ NextToArrive(r)
    /\ LET ip == clientIp(forwarded)
           res == checkRateLimit(rateLimitMap, ip, now)
           q == Stage([IdleReq EXCEPT !.ip = ip, !.raw = raw],
                      "ratelimit")
       IN  /\ rateLimitMap' = res.map
           /\ IF res.allowed
              THEN /\ req' = [req EXCEPT ![r] = [q EXCEPT !.pc = "params"]]
                   /\ admitLog' = LogAdmission(admitLog, ip, now)
                   /\ window' = RefAdmit(window, ip, now)
              ELSE /\ req' = [req EXCEPT ![r] =
                                 Respond(q, 429, ErrorBody("Rate limit exceeded"))]
                   /\ UNCHANGED <<admitLog, window>>
    /\ UNCHANGED <<route, now, env, caches, harness>>

\* lines 82-114: validateSymbol, the cache lookup, the key, the fetch
NewsLookup(r) ==
    /\ route = "news"
    /\ req[r].pc = "params"
    /\ LET symbol == validateSymbol(req[r].raw)
           q == Stage([req[r] EXCEPT !.symbol = symbol], "validate")
           c == Stage([q EXCEPT !.looked = now], "cache")
       IN  req' = [req EXCEPT ![r] =
                IF symbol = Null
                THEN Respond(q, 400, ErrorBody("Invalid symbol"))
                ELSE IF IsFresh(newsCache, symbol.v, now, NEWS_CACHE_DURATION)
                THEN Respond([c EXCEPT !.hit = TRUE], 200,
                             NewsBody(newsCache[symbol.v].data, TRUE))
                ELSE IF ~env.alphaVantageKey
                THEN Respond(c, 500, ErrorBody("API key not configured"))
                ELSE Stage([c EXCEPT !.pc = "fetch", !.fetched = c.fetched + 1],
                           "fetch")]
    /\ UNCHANGED <<route, now, env, limiter, caches, harness>>

\* the items of the feed are put in the cache under the symbol and answered
NewsStore(r, q, items) ==
    /\ newsCache' = MapSet(newsCache, q.symbol.v, [data |-> items, timestamp |-> now])
    /\ req' = [req EXCEPT ![r] =
          Respond(Stage([q EXCEPT !.wrote = TRUE, !.storedAt = now], "store"),
                  200, NewsBody(items, FALSE))]

\* NewsReply storing the empty list of a body without feed
NewsReply_StoresMissingFeed(r, outcome) ==
    /\ route = "news"
    /\ req[r].pc = "fetch"
    /\ LET q == req[r]
       IN  CASE outcome.k = "status" ->
                  /\ req' = [req EXCEPT ![r] =
                        Respond(q, outcome.status, ErrorBody("News fetch failed"))]
                  /\ UNCHANGED newsCache
             [] outcome.k = "note" ->
                  /\ req' = [req EXCEPT ![r] = Respond(q, 429, ErrorBody("API limit"))]
                  /\ UNCHANGED newsCache
             [] outcome.k = "reject" ->
                  /\ req' = [req EXCEPT ![r] = Respond(q, 500, ErrorBody("Server error"))]
                  /\ UNCHANGED newsCache
             [] outcome.k \in {"feed", "no-feed"} -> NewsStore(r, q, MappedItems(outcome.feed))
    /\ UNCHANGED <<route, now, env, limiter, indicatorsCache, analysisCache,
                   cachedData, cacheTime, cachedRate, alphaVantageCache, harness>>

\* lines 116-181: the provider's response
NewsReply(r, outcome) ==
    /\ route = "news"
    /\ req[r].pc = "fetch"
    /\ LET q == req[r]
       IN  CASE outcome.k = "status" ->
                  /\ req' = [req EXCEPT ![r] =
                        Respond(q, outcome.status, ErrorBody("News fetch failed"))]
                  /\ UNCHANGED newsCache
             [] outcome.k = "note" ->
                  /\ req' = [req EXCEPT ![r] = Respond(q, 429, ErrorBody("API limit"))]
                  /\ UNCHANGED newsCache
             [] outcome.k = "no-feed" ->
                  /\ req' = [req EXCEPT ![r] = Respond(q, 200, NewsBody(<<>>, FALSE))]
                  /\ UNCHANGED newsCache
             [] outcome.k = "reject" ->
                  /\ req' = [req EXCEPT ![r] = Respond(q, 500, ErrorBody("Server error"))]
                  /\ UNCHANGED newsCache
             [] outcome.k = "feed" -> NewsStore(r, q, MappedItems(outcome.feed))
    /\ UNCHANGED <<route, now, env, limiter, indicatorsCache, analysisCache,
                   cachedData, cacheTime, cachedRate, alphaVantageCache, harness>>

\* the limiter's state after the client's earlier traffic in the window that
\* opened at time 0: `admits` requests admitted (none of them stored anything)
PriorTraffic(ip, admits) ==
    /\ rateLimitMap = MapSet(EmptyMap, ip, [count |-> admits, resetTime |-> RATE_WINDOW])
    /\ admitLog = MapSet(EmptyMap, ip, MapSet(EmptyMap, 0, admits))
    /\ window = MapSet(EmptyMap, ip, [start |-> 0, admits |-> admits])

NoTraffic ==
    /\ rateLimitMap = EmptyMap
    /\ admitLog = EmptyMap
    /\ window = EmptyMap

InitCaches ==
    /\ now = 0
    /\ newsCache = EmptyMap
    /\ indicatorsCache = EmptyMap
    /\ analysisCache = EmptyMap
    /\ cachedData = Null
    /\ cachedRate = Null
    /\ cacheTime = 0
    /\ alphaVantageCache = EmptyMap
    /\ arg = Undefined
    /\ ret = Pending
    /\ req = [r \in Slots |-> IdleReq]
    /\ symIn = Undefined
    /\ symOut = Pending

InitNews ==
    /\ InitCaches
    /\ route = "news"
    /\ env \in {[openRouterKey |-> TRUE, alphaVantageKey |-> k] : k \in BOOLEAN}
    /\ NoTraffic \/ PriorTraffic(clientIp(Proxied), RATE_LIMIT - 1)

NextNews ==
    \/ \E r \in ReqSlots, raw \in RawSymbols : NewsBegin(r, Proxied, raw)
    \/ \E r \in ReqSlots : NewsLookup(r)
    \/ \E r \in ReqSlots, o \in NewsOutcomes : NewsReply(r, o)
    \/ Advance

SpecNews == InitNews /\ [][NextNews]_vars

\* the x-forwarded-for headers of three clients: two behind proxies, and one
\* without the header, whom the limiter knows as "unknown"
Forwards == {Proxied, Str(<<"10.0.0.7">>), Null}

\* the limiter's state after earlier traffic of two clients in the window
\* that opened at time 0
PriorTrafficOfTwo(ip1, admits1, ip2, admits2) ==
    /\ rateLimitMap = MapSet(MapSet(EmptyMap, ip1, [count |-> admits1, resetTime |-> RATE_WINDOW]),
                             ip2, [count |-> admits2, resetTime |-> RATE_WINDOW])
    /\ admitLog = MapSet(MapSet(EmptyMap, ip1, MapSet(EmptyMap, 0, admits1)),
                         ip2, MapSet(EmptyMap, 0, admits2))
    /\ window = MapSet(MapSet(EmptyMap, ip1, [start |-> 0, admits |-> admits1]),
                       ip2, [start |-> 0, admits |-> admits2])

\* the news route with several clients
InitClients ==
    /\ InitCaches
    /\ route = "news"
    /\ env = AllKeys
    /\ \/ NoTraffic
       \/ PriorTraffic(clientIp(Proxied), RATE_LIMIT - 1)
       \/ PriorTrafficOfTwo(clientIp(Proxied), RATE_LIMIT, clientIp(Null), 1)

NextClients ==
    \/ \E r \in ReqSlots, forwarded \in Forwards, raw \in RawSymbols :
           NewsBegin(r, forwarded, raw)
    \/ \E r \in ReqSlots : NewsLookup(r)
    \/ \E r \in ReqSlots, o \in NewsOutcomes : NewsReply(r, o)
    \/ Advance

SpecClients == InitClients /\ [][NextClients]_vars

(***************************************************************************)
(* Indicators route: GET /api/stock/[symbol]/indicators.  Prices are in    *)
(* cents, as the decimal numbers the provider writes, and RSI values in    *)
(* hundredths.                                                             *)
(***************************************************************************)
\* a close the provider reports as null
NullClose == -1

RSI_PERIOD == 14

\* the number a close of x cents is
CloseOf(x) == FloatOfDecimal(x, 2)

RECURSIVE Wilder(_, _, _)
\* lines 36-39: avg = (avg * (period - 1) + xs[i]) / period for i >= period;
\* an average that is NaN stays NaN
Wilder(avg, xs, i) ==
    IF avg.t = "nan" \/ i > Len(xs) THEN avg
    ELSE Wilder(FloatDiv(FloatAdd(FloatMul(avg, FloatOf(RSI_PERIOD - 1)), xs[i]),
                         FloatOf(RSI_PERIOD)),
                xs, i + 1)

\* lines 33-34: the simple average of the first `period` entries
InitialAverage(xs) == FloatDiv(FloatSum(SubSeq(xs, 1, RSI_PERIOD)), FloatOf(RSI_PERIOD))

\* lines 46-49: 100 - 100 / (1 + rs), rounded to two decimals
RoundedRSI(avgGain, avgLoss) ==
    LET rs == FloatDiv(avgGain, avgLoss)
    IN  RoundedHundredths(FloatSub(Float100, FloatDiv(Float100, FloatAdd(FloatOf(1), rs))))

\* lines 22-25: closePrices[i] - closePrices[i - 1]
Changes(closePrices) ==
    [i \in 1..(Len(closePrices) - 1) |->
        FloatSub(CloseOf(closePrices[i + 1]), CloseOf(closePrices[i]))]

\* line 28: changes.map(c => c > 0 ? c : 0)
Gains(changes) ==
    [i \in DOMAIN changes |->
        IF FloatCmp(changes[i], FloatZero) > 0 THEN changes[i] ELSE FloatZero]

\* line 29: changes.map(c => c < 0 ? Math.abs(c) : 0)
Losses(changes) ==
    [i \in DOMAIN changes |->
        IF FloatCmp(changes[i], FloatZero) < 0 THEN FloatNeg(changes[i]) ELSE FloatZero]

\* Math.abs of every change
Magnitudes(changes) ==
    [i \in DOMAIN changes |->
        IF FloatCmp(changes[i], FloatZero) < 0 THEN FloatNeg(changes[i]) ELSE changes[i]]

\* lines 32-39: the average of the first `period` entries, smoothed over
\* the entries after them
SmoothedAverage(xs) == Wilder(InitialAverage(xs), xs, RSI_PERIOD + 1)

\* lines 42-49
RSIOf(avgGain, avgLoss) ==
    IF FloatIsZero(avgLoss) THEN Num(10000) ELSE RoundedRSI(avgGain, avgLoss)

\* calculateRSI with every change counted as a loss, whatever its sign
calculateRSI_EveryChangeALoss(closePrices) ==
    IF Len(closePrices) < RSI_PERIOD + 1 THEN Null
    ELSE LET changes == Changes(closePrices)
         IN  RSIOf(SmoothedAverage(Gains(changes)), SmoothedAverage(Magnitudes(changes)))

\* part_002 lines 16-50; closes in cents, the RSI in hundredths
calculateRSI(closePrices) ==
    IF Len(closePrices) < RSI_PERIOD + 1 THEN Null
    ELSE LET changes == Changes(closePrices)
         IN  RSIOf(SmoothedAverage(Gains(changes)), SmoothedAverage(Losses(changes)))

\* getRSISignal with the first threshold strict: 70 is not Overbought
getRSISignal_AboveSeventy(rsi) ==
    IF rsi > 7000 THEN "Overbought"
    ELSE IF rsi >= 6000 THEN "Bullish"
    ELSE IF rsi <= 3000 THEN "Oversold"
    ELSE IF rsi <= 4000 THEN "Bearish"
    ELSE "Neutral"

getRSISignal(rsi) ==
    IF rsi >= 7000 THEN "Overbought"
    ELSE IF rsi >= 6000 THEN "Bullish"
    ELSE IF rsi <= 3000 THEN "Oversold"
    ELSE IF rsi <= 4000 THEN "Bearish"
    ELSE "Neutral"

IsClose(price) == price # NullClose

\* a month of closes, rising
RisingCloses == [i \in 1..15 |-> 10000 + 100 * i]

\* a month of closes, rising and falling
MixedCloses ==
    <<4400, 4425, 4450, 4375, 4450, 4480, 4510, 4500, 4460, 4490, 4530, 4560,
      4520, 4580, 4600, 4550>>

\* fifteen entries of which one is null
GappedCloses == [i \in 1..15 |-> IF i = 7 THEN NullClose ELSE 10000 - 100 * i]

\* the close series the provider gives the indicators route
ServedCloses == {RisingCloses, MixedCloses, GappedCloses}

\* the upstream outcomes of the chart request of the indicators route
IndicatorOutcomes ==
    {[k |-> "status", status |-> 404, close |-> <<>>],
     [k |-> "no-close", status |-> 200, close |-> <<>>],
     [k |-> "reject", status |-> 0, close |-> <<>>]}
    \cup {[k |-> "close", status |-> 200, close |-> c] : c \in ServedCloses}

\* lines 105-114: the RSI of the closes that are not null
ServedRSI == [c \in ServedCloses |-> calculateRSI(SelectSeq(c, IsClose))]

IndicatorsBody(indicators, cached) ==
    [kind |-> "indicators", data |-> indicators, cached |-> cached, model |-> ""]

\* lines 64-88: params, validateSymbol, the cache lookup, the fetch
IndicatorsLookup(r, raw) ==
    /\ route = "indicators"
    /\ req[r].pc = "idle"
    /\ NextToArrive(r)
    /\ LET symbol == validateSymbol(raw)
           q == Stage([IdleReq EXCEPT !.raw = raw, !.symbol = symbol],
                      "validate")
           c == Stage([q EXCEPT !.looked = now], "cache")
       IN  req' = [req EXCEPT ![r] =
                IF symbol = Null
                THEN Respond(q, 400, ErrorBody("Invalid symbol"))
                ELSE IF IsFresh(indicatorsCache, symbol.v, now,
                                INDICATORS_CACHE_DURATION_MS)
                THEN Respond([c EXCEPT !.hit = TRUE], 200,
                             IndicatorsBody(indicatorsCache[symbol.v].data, TRUE))
                ELSE Stage([c EXCEPT !.pc = "fetch", !.fetched = c.fetched + 1],
                           "fetch")]
    /\ UNCHANGED <<route, now, env, limiter, caches, harness>>

\* lines 116-121: the indicators of an RSI value
IndicatorsOf(rsiValue) ==
    [rsi |-> IF rsiValue # Null
             THEN [value |-> rsiValue.v, signal |-> getRSISignal(rsiValue.v)]
             ELSE [value |-> 0, signal |-> "null"]]

\* lines 124-126: the indicators are put in the cache under the symbol and
\* answered
IndicatorsStore(r, q, indicators) ==
    /\ indicatorsCache' = MapSet(indicatorsCache, q.symbol.v,
                                 [data |-> indicators, timestamp |-> now])
    /\ req' = [req EXCEPT ![r] =
          Respond(Stage([q EXCEPT !.wrote = TRUE, !.storedAt = now], "store"),
                  200, IndicatorsBody(indicators, FALSE))]

\* lines 90-133: the chart response
IndicatorsReply(r, outcome) ==
    /\ route = "indicators"
    /\ req[r].pc = "fetch"
    /\ LET q == req[r]
           closePrices == SelectSeq(outcome.close, IsClose)
           noRsi == [rsi |-> [value |-> 0, signal |-> "null"]]
       IN  CASE outcome.k = "status" ->
                  /\ req' = [req EXCEPT ![r] =
                        Respond(q, outcome.status, ErrorBody("Failed to fetch data"))]
                  /\ UNCHANGED indicatorsCache
             [] outcome.k = "reject" ->
                  /\ req' = [req EXCEPT ![r] = Respond(q, 500, ErrorBody("Server error"))]
                  /\ UNCHANGED indicatorsCache
             [] outcome.k = "no-close" \/ (outcome.k = "close" /\ Len(closePrices) < 15) ->
                  /\ req' = [req EXCEPT ![r] =
                        Respond(q, 200, IndicatorsBody(noRsi, FALSE))]
                  /\ UNCHANGED indicatorsCache
             [] outcome.k = "close" /\ Len(closePrices) >= 15 ->
                  IndicatorsStore(r, q, IndicatorsOf(ServedRSI[outcome.close]))
    /\ UNCHANGED <<route, now, env, limiter, newsCache, analysisCache,
                   cachedData, cacheTime, cachedRate, alphaVantageCache, harness>>

InitIndicators ==
    /\ InitCaches
    /\ NoTraffic
    /\ route = "indicators"
    /\ env = AllKeys

NextIndicators ==
    \/ \E r \in ReqSlots, raw \in RawSymbols : IndicatorsLookup(r, raw)
    \/ \E r \in ReqSlots, o \in IndicatorOutcomes : IndicatorsReply(r, o)
    \/ Advance

SpecIndicators == InitIndicators /\ [][NextIndicators]_vars

(***************************************************************************)
(* Market overview route: GET /api/market                                  *)
(***************************************************************************)
INDICES == <<"^GSPC", "^DJI", "^IXIC">>

\* what Promise.all collects: for every index, whether fetchIndexData
\* returned a MarketIndex (TRUE) or null
MarketOutcomes ==
    {[i \in 1..Len(INDICES) |-> FALSE],
     [i \in 1..Len(INDICES) |-> TRUE],
     [i \in 1..Len(INDICES) |-> i # 1]}

IsIndex(x) == x # "null"

MarketBody(marketData) ==
    [kind |-> "market", data |-> marketData, cached |-> FALSE, model |-> ""]

\* lines 61-72: the clock is read, the cache looked up, the fetches issued
MarketLookup(r) ==
    /\ route = "market"
    /\ req[r].pc = "idle"
    /\ NextToArrive(r)
    /\ LET q == Stage([IdleReq EXCEPT !.began = now, !.looked = now], "cache")
       IN  req' = [req EXCEPT ![r] =
                IF cachedData # Null /\ now - cacheTime < MARKET_CACHE_DURATION
                THEN Respond([q EXCEPT !.hit = TRUE], 200, MarketBody(cachedData))
                ELSE Stage([q EXCEPT !.pc = "fetch",
                                     !.fetched = q.fetched + Len(INDICES)], "fetch")]
    /\ UNCHANGED <<route, now, env, limiter, caches, harness>>

\* lines 74-99: the collected results; `began` is the handler's `now`
MarketReply(r, results) ==
    /\ route = "market"
    /\ req[r].pc = "fetch"
    /\ LET q == req[r]
           indices == SelectSeq([i \in 1..Len(INDICES) |->
                                    IF results[i] THEN INDICES[i] ELSE "null"], IsIndex)
           marketData == [indices |-> indices, lastUpdated |-> now]
           stored == Stage([q EXCEPT !.wrote = TRUE, !.storedAt = now], "store")
       IN  IF Len(indices) = 0
           THEN /\ req' = [req EXCEPT ![r] =
                      Respond(q, 503, ErrorBody("Unable to fetch market data"))]
                /\ UNCHANGED <<cachedData, cacheTime>>
           ELSE /\ cachedData' = marketData
                /\ cacheTime' = q.began
                /\ req' = [req EXCEPT ![r] = Respond(stored, 200, MarketBody(marketData))]
    /\ UNCHANGED <<route, now, env, limiter, newsCache, indicatorsCache,
                   analysisCache, alphaVantageCache, cachedRate, harness>>

InitMarket ==
    /\ InitCaches
    /\ NoTraffic
    /\ route = "market"
    /\ env = AllKeys

NextMarket ==
    \/ \E r \in ReqSlots : MarketLookup(r)
    \/ \E r \in ReqSlots, o \in MarketOutcomes : MarketReply(r, o)
    \/ Advance

SpecMarket == InitMarket /\ [][NextMarket]_vars

(***************************************************************************)
(* Exchange rate route (part_001).  The provider's rate is counted in      *)
(* hundred-thousandths and the returned rate in ten-thousandths; a time is *)
(* the number of milliseconds its ISO string stands for.                   *)
(***************************************************************************)
\* part_004 lines 69-83
validateExchangeResponse(data) ==
    /\ data.t = "object"
    /\ data.rates.t = "object"
    /\ data.rates.THB.t = "number"
    /\ data.rates.THB.v > 0

Float10000 == FloatOf(10000)

\* line 51: Math.round(x * 10000) / 10000 of the number written x / 100000,
\* as a count of ten-thousandths
RoundRate(x) ==
    NatToInteger(FloatRound(FloatMul(FloatOfDecimal(x, 5), Float10000)).mag)

\* the rates, in units of 1e-5, of the provider's bodies
ServedRates == {3351234, 3300055, 3475996, 3350000, 3612344}

\* the rounded rates of the provider's bodies, computed once
ServedRoundedRates == [x \in ServedRates |-> RoundRate(x)]

\* line 51, for any rate
RoundedRate(x) == IF x \in ServedRates THEN ServedRoundedRates[x] ELSE RoundRate(x)

\* lines 31-34, 44-47, 67-70
FallbackData(t) == Obj([rate |-> FALLBACK_RATE, lastUpdated |-> t])

HexDigits == <<"0", "1", "2", "3", "4", "5", "6", "7", "8", "9",
               "a", "b", "c", "d", "e", "f">>

UpperHexDigits == <<"0", "1", "2", "3", "4", "5", "6", "7", "8", "9",
                    "A", "B", "C", "D", "E", "F">>

\* the value of a digit of a literal with a radix, 16 for any other character
RadixDigitValue(c) ==
    IF \E i \in 1..16 : HexDigits[i] = c
    THEN (CHOOSE i \in 1..16 : HexDigits[i] = c) - 1
    ELSE IF \E i \in 1..16 : UpperHexDigits[i] = c
    THEN (CHOOSE i \in 1..16 : UpperHexDigits[i] = c) - 1
    ELSE 16

\* the radix a literal 0x.., 0o.. or 0b.. is written in, 0 for another text
RadixOf(t) ==
    IF Len(t) < 3 \/ t[1] # "0" THEN 0
    ELSE IF t[2] \in {"x", "X"} THEN 16
    ELSE IF t[2] \in {"o", "O"} THEN 8
    ELSE IF t[2] \in {"b", "B"} THEN 2
    ELSE 0

IsRadixLiteral(t) ==
    /\ RadixOf(t) > 0
    /\ \A i \in 3..Len(t) : RadixDigitValue(t[i]) < RadixOf(t)

RECURSIVE NatOfRadixDigits(_, _)
\* the natural number a run of digits writes in a radix
NatOfRadixDigits(digits, radix) ==
    IF digits = <<>> THEN <<>>
    ELSE NatAdd(NatMulLimb(NatOfRadixDigits(SubSeq(digits, 1, Len(digits) - 1), radix),
                           radix, 0),
                NatOf(RadixDigitValue(digits[Len(digits)])))

\* how many characters of u, a text without sign, make a decimal literal
\* (digits, point, digits, exponent) or Infinity; 0 when u begins with none
LiteralLength(u) ==
    LET n1 == LeadingDigits(u)
        afterInt == Drop(u, n1)
        hasPoint == afterInt # <<>> /\ afterInt[1] = "."
        n2 == IF hasPoint THEN LeadingDigits(Tail(afterInt)) ELSE 0
        rest == IF hasPoint THEN Drop(afterInt, n2 + 1) ELSE afterInt
        hasE == rest # <<>> /\ rest[1] \in {"e", "E"}
        afterE == IF hasE THEN Tail(rest) ELSE <<>>
        eSigned == afterE # <<>> /\ afterE[1] \in {"+", "-"}
        n3 == LeadingDigits(IF eSigned THEN Tail(afterE) ELSE afterE)
    IN  IF Len(u) >= 8 /\ SubSeq(u, 1, 8) = InfinityText THEN 8
        ELSE IF n1 + n2 = 0 THEN 0
        ELSE n1 + (IF hasPoint THEN 1 + n2 ELSE 0)
                + (IF n3 > 0 THEN 1 + (IF eSigned THEN 1 ELSE 0) + n3 ELSE 0)

\* the number a text is converted to: 0 for white space alone, the value of
\* a literal that is the whole text between its white space, NaN otherwise
StringToNumber(s) ==
    LET t == Trim(s)
        u == IF t # <<>> /\ t[1] \in {"+", "-"} THEN Tail(t) ELSE t
    IN  IF t = <<>> THEN FloatZero
        ELSE IF IsRadixLiteral(t)
        THEN RoundRatio(1, NatNorm(NatOfRadixDigits(Drop(t, 2), RadixOf(t))), <<1>>, 0)
        ELSE IF u # <<>> /\ LiteralLength(u) = Len(u) THEN parseFloat(t)
        ELSE NaN

RECURSIVE ToNumber(_)
\* line 53: the number a value is converted to by `*`.  A number of this
\* route counts units.  A list is converted through its text: nothing for no
\* entry and for an entry null or undefined, the text of its one entry, and
\* a text with commas, which is no number, for several entries
ToNumber(x) ==
    CASE x.t = "number" -> FloatOf(x.v)
      [] x.t \in {"double", "nan", "infinity"} -> x
      [] x.t = "string" -> StringToNumber(x.v)
      [] x.t = "boolean" -> IF x.v THEN FloatOf(1) ELSE FloatZero
      [] x.t = "null" -> FloatZero
      [] x.t = "array" /\ Len(x.v) = 0 -> FloatZero
      [] x.t = "array" /\ Len(x.v) = 1 /\ x.v[1].t \in {"null", "undefined"} -> FloatZero
      [] x.t = "array" /\ Len(x.v) = 1
                       /\ x.v[1].t \in {"number", "double", "nan", "infinity",
                                        "string", "array"} -> ToNumber(x.v[1])
      [] OTHER -> NaN

Float1000 == FloatOf(1000)

\* the largest time value of a Date: 8.64e15 milliseconds
MaxTimeValue == FloatMul(FloatOf(86400000), FloatOf(100000000))

\* line 53: data.time_last_updated * 1000
MillisecondsOf(x) == FloatMul(ToNumber(x), Float1000)

\* new Date(ms) is a date for a finite ms of magnitude up to 8.64e15
IsTimeValue(ms) ==
    /\ ms.t = "double"
    /\ FloatCmp([ms EXCEPT !.s = 1], MaxTimeValue) <= 0

\* line 53: new Date(x * 1000).toISOString() throws unless x * 1000 is the
\* time value of a date
IsDatable(x) == IsTimeValue(MillisecondsOf(x))

\* the integer part of a finite number, as an integer of any size
FloatTruncate(x) ==
    IF x.m = <<>> THEN IntOf(0)
    ELSE IF x.e >= 0 THEN [sign |-> x.s, mag |-> NatShl(x.m, x.e)]
    ELSE IF x.e < -54 THEN IntOf(0)
    ELSE IntOfMagnitude(x.s, NatDivMod(x.m, NatShl(<<1>>, -x.e)).q)

\* largest magnitude of a time that is given as a count of milliseconds; a
\* larger one is given as the binary64 number it is
MillisCeiling == 2000000000

\* the time new Date(ms) stands for: ms without its fraction
TimeOf(n) ==
    IF NatCmp(n.mag, NatOf(MillisCeiling)) <= 0 THEN n.sign * NatToInteger(n.mag)
    ELSE FloatOfInteger(n)

\* time_last_updated of a body: a text that is no number
Soon == Str(<<"s", "o", "o", "n">>)

\* a time in seconds beyond the last date: 10^13
TooLate == FloatMul(FloatOf(100000), FloatOf(100000000))

\* the values of time_last_updated, where it is given, in the provider's
\* bodies
ServedTimes == {Num(7), Str(<<"7">>), Soon, TooLate}

\* line 53: the date new Date(data.time_last_updated * 1000), or nothing
\* where toISOString throws
DateOfSeconds(x) ==
    IF ~IsDatable(x) THEN Undefined
    ELSE [t |-> "date", time |-> TimeOf(FloatTruncate(MillisecondsOf(x)))]

\* the dates of the provider's bodies, computed once
ServedDates == [x \in ServedTimes |-> DateOfSeconds(x)]

\* line 53, for any time_last_updated
UpdatedDate(x) == IF x \in ServedTimes THEN ServedDates[x] ELSE DateOfSeconds(x)

\* lines 50-55 for a time_last_updated that is given: toISOString throws on
\* what is no date, and nothing is built: Undefined
DatedExchangeData(thb, date) ==
    IF date.t # "date" THEN Undefined
    ELSE Obj([rate |-> RoundedRate(thb), lastUpdated |-> date.time])

\* lines 50-55; time_last_updated is in seconds
ExchangeData(data, t) ==
    IF ~Truthy(data.time_last_updated)
    THEN Obj([rate |-> RoundedRate(data.rates.THB.v), lastUpdated |-> t])
    ELSE DatedExchangeData(data.rates.THB.v, UpdatedDate(data.time_last_updated))

RateBody(exchangeRate, cached) ==
    [kind |-> "rate", data |-> exchangeRate, cached |-> cached, model |-> ""]

\* a body of the provider with its rates
RatesBody(thb, updated) ==
    [t |-> "object", rates |-> [t |-> "object", THB |-> thb], time_last_updated |-> updated]

\* what the rate provider answers: no response, a body that is no JSON, a
\* status that is not ok, bodies without a positive numeric rates.THB, and
\* bodies with one: at 33.00055 the product with 10000 lies below the tie;
\* time_last_updated is missing, 0, a time in seconds as a number and as a
\* text, a text that is no number, or a time beyond the last date
ExchangeResponses ==
    {Rejected, Response(TRUE, Unparsable),
     Response(FALSE, RatesBody(Num(3351234), Undefined))}
    \cup {Response(TRUE, b) :
            b \in {Null,
                   [t |-> "string"],
                   [t |-> "object", rates |-> Null, time_last_updated |-> Undefined],
                   RatesBody(Undefined, Undefined),
                   RatesBody(Str(<<"3", "3">>), Undefined),
                   RatesBody(Num(0), Undefined),
                   RatesBody(Num(-3351234), Undefined),
                   RatesBody(Num(3351234), Undefined),
                   RatesBody(Num(3300055), Num(0)),
                   RatesBody(Num(3475996), Num(7)),
                   RatesBody(Num(3350000), Str(<<"7">>)),
                   RatesBody(Num(3612344), Soon),
                   RatesBody(Num(3351234), TooLate)}}

\* lines 14-28: the clock is read, the cache looked up, the request issued
ExchangeRequest(r) ==
    /\ route = "exchange"
    /\ req[r].pc = "idle"
    /\ NextToArrive(r)
    /\ LET q == Stage([IdleReq EXCEPT !.began = now, !.looked = now], "cache")
       IN  req' = [req EXCEPT ![r] =
                IF cachedRate.t # "null" /\ now - cacheTime < EXCHANGE_CACHE_DURATION
                THEN Respond([q EXCEPT !.hit = TRUE], 200, RateBody(cachedRate, TRUE))
                ELSE Stage([q EXCEPT !.pc = "fetch", !.fetched = q.fetched + 1],
                           "fetch")]
    /\ UNCHANGED <<route, now, env, limiter, caches, harness>>

\* lines 57-61 and the catch of 62-71: exchangeData is stored and answered,
\* or, when none was built, the fallback answered
ExchangeAnswer(r, q, exchangeData) ==
    IF exchangeData.t = "object"
    THEN /\ cachedRate' = exchangeData
         /\ cacheTime' = q.began
         /\ req' = [req EXCEPT ![r] =
                Respond(Stage([q EXCEPT !.wrote = TRUE, !.storedAt = now], "store"),
                        200, RateBody(exchangeData, FALSE))]
    ELSE /\ req' = [req EXCEPT ![r] =
                Respond(q, 200, RateBody(FallbackData(now), FALSE))]
         /\ UNCHANGED <<cachedRate, cacheTime>>

\* lines 29-71: the provider's response; `began` is the handler's `now`
ExchangeReply(r, response) ==
    /\ route = "exchange"
    /\ req[r].pc = "fetch"
    /\ ExchangeAnswer(r, [req[r] EXCEPT !.upstream = response],
                      IF /\ response.t = "response"
                         /\ response.ok
                         /\ response.body.t # "unparsable"
                         /\ validateExchangeResponse(response.body)
                      THEN ExchangeData(response.body, now)
                      ELSE Undefined)
    /\ UNCHANGED <<route, now, env, limiter, newsCache, indicatorsCache,
                   analysisCache, cachedData, alphaVantageCache, harness>>

InitExchange ==
    /\ InitCaches
    /\ NoTraffic
    /\ route = "exchange"
    /\ env = AllKeys

NextExchange ==
    \/ \E r \in ReqSlots : ExchangeRequest(r)
    \/ \E r \in ReqSlots, response \in ExchangeResponses : ExchangeReply(r, response)
    \/ Advance

SpecExchange == InitExchange /\ [][NextExchange]_vars

(***************************************************************************)
(* AI analysis route: POST /api/ai.  A reply's content is a sequence of    *)
(* lexemes: whitespace, code fences, and JSON texts named by JsonText.     *)
(* Prices are in cents.                                                    *)
(***************************************************************************)
UP == Str(<<"U", "P">>)

SIDEWAYS == Str(<<"S", "I", "D", "E", "W", "A", "Y", "S">>)

HOLD == Str(<<"H", "O", "L", "D">>)

\* x.key: undefined unless x is an object holding the key; reading a property
\* of null or undefined throws, which ThrowsOnRead tells
ThrowsOnRead(x) == x.t \in {"undefined", "null"}

Field(x, key) ==
    IF x.t = "object" /\ key \in DOMAIN x.v THEN x.v[key] ELSE Undefined

\* the analysis the prompt asks for
GoodAnalysis ==
    Obj([score |-> Num(8), prediction |-> UP, confidence |-> Num(80),
         reasons |-> Arr(<<"r1", "r2", "r3">>),
         bottomFishing |-> Obj([recommended |-> TRUE, targetPrice |-> Num(19000)]),
         priceTarget |-> Obj([expectedRise |-> Num(10), targetPrice |-> Num(22000)]),
         riskFactors |-> Arr(<<"k1", "k2", "k3">>)])

\* the JSON texts the model may answer with, and what JSON.parse makes of them;
\* any other lexeme is not JSON.  A key that a text lacks is held with the
\* value undefined, which is what reading it gives
JsonText ==
    [good |-> GoodAnalysis,
     unsure |-> Obj([GoodAnalysis.v EXCEPT !.confidence = Undefined]),
     odd |-> Obj([GoodAnalysis.v EXCEPT !.score = Num(10), !.prediction = SIDEWAYS,
                                        !.confidence = Num(500),
                                        !.reasons = Arr(<<>>),
                                        !.riskFactors = Arr(<<"k1">>)]),
     low |-> Obj([GoodAnalysis.v EXCEPT !.score = Num(0)]),
     high |-> Obj([GoodAnalysis.v EXCEPT !.score = Num(11)]),
     quoted |-> Obj([GoodAnalysis.v EXCEPT !.score = Str(<<"8">>)]),
     bare |-> Obj([GoodAnalysis.v EXCEPT !.prediction = Undefined]),
     aimless |-> Obj([GoodAnalysis.v EXCEPT !.priceTarget = Undefined]),
     prose |-> Obj([GoodAnalysis.v EXCEPT !.reasons = Str(<<"r1">>)]),
     null |-> Null,
     five |-> Num(5),
     list |-> Arr(<<>>)]

\* the lexeme of an opening fence tagged json
FenceJson == "<fence>json"

\* the lexeme of three backquotes
Fence == "<fence>"

Blank == " "

IsBlank(lexeme) == lexeme = Blank

RECURSIVE TrimBlanksStart(_)
TrimBlanksStart(s) ==
    IF Len(s) > 0 /\ IsBlank(s[1]) THEN TrimBlanksStart(Tail(s)) ELSE s

RECURSIVE TrimBlanksEnd(_)
TrimBlanksEnd(s) ==
    IF Len(s) > 0 /\ IsBlank(s[Len(s)])
    THEN TrimBlanksEnd(SubSeq(s, 1, Len(s) - 1))
    ELSE s

TrimBlanks(s) == TrimBlanksEnd(TrimBlanksStart(s))

\* lines 233-242: the clean-up of the reply
CleanResponse(aiResponse) ==
    LET trimmed == TrimBlanks(aiResponse)
        opened == IF Len(trimmed) > 0 /\ trimmed[1] \in {FenceJson, Fence}
                  THEN Tail(trimmed)
                  ELSE trimmed
        closed == IF Len(opened) > 0 /\ opened[Len(opened)] = Fence
                  THEN SubSeq(opened, 1, Len(opened) - 1)
                  ELSE opened
    IN  TrimBlanks(closed)

\* JSON.parse: a value with whitespace around it, or a throw
JsonParses(text) ==
    LET value == TrimBlanks(text)
    IN  Len(value) = 1 /\ value[1] \in DOMAIN JsonText

JsonParse(text) == JsonText[TrimBlanks(text)[1]]

\* PassesValidation with the score admitted from 0
PassesValidation_ScoreFromZero(parsed) ==
    /\ ~ThrowsOnRead(parsed)
    /\ Field(parsed, "score").t = "number"
    /\ Field(parsed, "score").v >= 0
    /\ Field(parsed, "score").v <= 10
    /\ Field(parsed, "reasons").t = "array"
    /\ Field(parsed, "riskFactors").t = "array"
    /\ Truthy(Field(parsed, "prediction"))
    /\ Truthy(Field(parsed, "bottomFishing"))
    /\ Truthy(Field(parsed, "priceTarget"))

\* lines 247-255: the structure the handler insists on
PassesValidation(parsed) ==
    /\ ~ThrowsOnRead(parsed)
    /\ Field(parsed, "score").t = "number"
    /\ Field(parsed, "score").v >= 1
    /\ Field(parsed, "score").v <= 10
    /\ Field(parsed, "reasons").t = "array"
    /\ Field(parsed, "riskFactors").t = "array"
    /\ Truthy(Field(parsed, "prediction"))
    /\ Truthy(Field(parsed, "bottomFishing"))
    /\ Truthy(Field(parsed, "priceTarget"))

\* the current prices, in cents, of the quotes clients send
ServedPrices == {20000, 10001}

\* line 270: currentPrice * 0.95 of a price of currentPrice cents, which is
\* not rounded
PriceTimesPoint95(currentPrice) ==
    FloatMul(FloatOfDecimal(currentPrice, 2), FloatOfDecimal(95, 2))

\* the products for the prices clients send, computed once
ServedTargetPrices == [price \in ServedPrices |-> PriceTimesPoint95(price)]

\* line 270, for any price
TimesPoint95(currentPrice) ==
    IF currentPrice \in ServedPrices THEN ServedTargetPrices[currentPrice]
    ELSE PriceTimesPoint95(currentPrice)

\* lines 259-285: the fallback response
FallbackAnalysis(currentPrice) ==
    Obj([score |-> Num(5), prediction |-> HOLD, confidence |-> Num(50),
         reasons |-> Arr(<<"Unable to fully analyze at this moment",
                           "Data suggests a neutral position",
                           "Consider additional research before investing">>),
         bottomFishing |-> Obj([recommended |-> FALSE,
                                targetPrice |-> TimesPoint95(currentPrice)]),
         priceTarget |-> Obj([expectedRise |-> Num(0), targetPrice |-> Num(currentPrice)]),
         riskFactors |-> Arr(<<"Monitor price volatility and volume",
                               "Watch for upcoming earnings reports",
                               "Track overall market conditions">>)])

\* lines 230-286: parse, validate, fall back
ParseAnalysis(aiResponse, currentPrice) ==
    IF aiResponse.t # "string" THEN FallbackAnalysis(currentPrice)
    ELSE LET cleanedResponse == CleanResponse(aiResponse.v)
         IN  IF JsonParses(cleanedResponse)
                /\ PassesValidation(JsonParse(cleanedResponse))
             THEN JsonParse(cleanedResponse)
             ELSE FallbackAnalysis(currentPrice)

DefaultModel == "google/gemini-2.5-flash"

\* model || "google/gemini-2.5-flash"
SelectedModel(model) == IF Truthy(model) THEN model.v[1] ELSE DefaultModel

\* the stockData of a quote of currentPrice cents
QuoteOf(currentPrice) ==
    Obj([name |-> Str(<<"A", "p", "p", "l", "e">>),
         currentPrice |-> Num(currentPrice),
         change |-> Num(-150),
         changePercent |-> Num(-75),
         dayHigh |-> Num(currentPrice + 100),
         dayLow |-> Num(currentPrice - 100),
         volume |-> Num(52000000),
         sharpeRatio |-> Num(120),
         trend |-> Str(<<"n", "e", "u", "t", "r", "a", "l">>)])

\* a quote without the field `key`
Lacking(quote, key) == Obj([k \in DOMAIN quote.v \ {key} |-> quote.v[k]])

\* the stockData the prompt cannot be built from: nothing, values that are
\* no object, and quotes with a field missing or of another type
UnusableQuotes ==
    {Undefined, Null, Num(5), Str(<<"x">>), Arr(<<>>),
     Lacking(QuoteOf(20000), "trend"),
     Lacking(QuoteOf(20000), "sharpeRatio"),
     Obj([QuoteOf(20000).v EXCEPT !.currentPrice = Str(<<"2", "0", "0">>)]),
     Obj([QuoteOf(20000).v EXCEPT !.volume = Null]),
     Obj([QuoteOf(20000).v EXCEPT !.trend = Num(1)])}

NumberFields == {"currentPrice", "change", "changePercent", "dayHigh", "dayLow", "sharpeRatio"}

\* lines 160-173: the template of the user prompt throws when it reads a
\* property of undefined or null, calls toFixed on what is no number,
\* toString on a volume that is undefined or null, or charAt on a trend that
\* is no string
PromptThrows(stockData) ==
    \/ ThrowsOnRead(stockData)
    \/ \E key \in NumberFields : Field(stockData, key).t # "number"
    \/ ThrowsOnRead(Field(stockData, "volume"))
    \/ Field(stockData, "trend").t # "string"

\* the price of a request whose prompt could not be built
NoPrice == -1

\* stockData.currentPrice in cents, where the prompt can be built
PriceIn(stockData) ==
    IF PromptThrows(stockData) THEN NoPrice ELSE stockData.v.currentPrice.v

\* request bodies: unreadable JSON, or the fields the handler reads
AIBodies ==
    {[ok |-> FALSE, symbol |-> Undefined, forceRefresh |-> FALSE, model |-> Undefined,
      stockData |-> Undefined],
     [ok |-> TRUE, symbol |-> Undefined, forceRefresh |-> FALSE, model |-> Undefined,
      stockData |-> QuoteOf(20000)],
     [ok |-> TRUE, symbol |-> Str(<<"$", "$", "$">>), forceRefresh |-> TRUE,
      model |-> Undefined, stockData |-> QuoteOf(20000)],
     [ok |-> TRUE, symbol |-> Str(<<"a", "a", "p", "l", " ">>), forceRefresh |-> FALSE,
      model |-> Undefined, stockData |-> Undefined],
     [ok |-> TRUE, symbol |-> Str(<<"a", "a", "p", "l", " ">>), forceRefresh |-> FALSE,
      model |-> Undefined, stockData |-> QuoteOf(20000)],
     [ok |-> TRUE, symbol |-> Str(<<"a", "a", "p", "l", " ">>), forceRefresh |-> TRUE,
      model |-> Str(<<"x-ai/grok-4">>), stockData |-> QuoteOf(10001)]}
    \cup {[ok |-> TRUE, symbol |-> Str(<<"a", "a", "p", "l", " ">>),
           forceRefresh |-> TRUE, model |-> Undefined, stockData |-> quote] :
              quote \in UnusableQuotes}

\* choices[0].message.content of a 2xx reply: nothing, null, the empty
\* text, 0, false, values that are no text, and texts
Contents ==
    {Undefined, Null, Str(<<>>), Num(0), Bool(FALSE), Num(5), Bool(TRUE), Arr(<<>>),
     Str(<<Blank>>), Str(<<"sorry">>),
     Str(<<"good", "sorry">>),
     Str(<<FenceJson, Blank, "good", Blank, Fence>>),
     Str(<<Blank, Fence, "good", Fence, Blank>>)}
    \cup {Str(<<j>>) : j \in DOMAIN JsonText}

\* what the text-generation service answers
LimitExceeded == <<"l", "i", "m", "i", "t", " ", "e", "x", "c", "e", "e", "d", "e", "d">>

\* error.message of a reply that is not ok: missing, empty, the words looked
\* for alone, inside a sentence and in capitals, other words, a list and a
\* number
ErrorMessages ==
    {Undefined, Str(<<>>), Str(LimitExceeded),
     Str(<<"K", "e", "y", " ">> \o LimitExceeded \o <<" ", "t", "o", "d", "a", "y">>),
     Str(<<"L", "i", "m", "i", "t", " ", "E", "x", "c", "e", "e", "d", "e", "d">>),
     Str(<<"N", "o", " ", "c", "r", "e", "d", "i", "t", "s">>),
     Arr(<<Str(LimitExceeded)>>), Num(402)}

\* line 200: errorData?.error?.message || ""
ErrorMessageOf(message) == IF Truthy(message) THEN message ELSE Str(<<>>)

\* line 201: includes is a method of texts and of arrays; called on any
\* other value it throws
IncludesThrows(errorMessage) == errorMessage.t \notin {"string", "array"}

\* line 201: errorMessage.includes("limit exceeded")
SaysLimitExceeded(errorMessage) ==
    \/ errorMessage.t = "string" /\ Includes(errorMessage.v, LimitExceeded)
    \/ errorMessage.t = "array"
       /\ \E i \in DOMAIN errorMessage.v : errorMessage.v[i] = Str(LimitExceeded)

LLMReplies ==
    {[k |-> "status", status |-> 403, message |-> m,
      content |-> Undefined, model |-> Undefined] : m \in ErrorMessages}
    \cup
    {[k |-> "status", status |-> 502, message |-> Str(LimitExceeded),
      content |-> Undefined, model |-> Undefined],
     [k |-> "reject", status |-> 0, message |-> Undefined,
      content |-> Undefined, model |-> Undefined],
     [k |-> "unreadable", status |-> 200, message |-> Undefined,
      content |-> Undefined, model |-> Undefined],
     [k |-> "json", status |-> 200, message |-> Undefined,
      content |-> Str(<<"odd">>), model |-> Str(<<"served/model">>)]}
    \cup {[k |-> "json", status |-> 200, message |-> Undefined,
           content |-> c, model |-> Undefined] : c \in Contents \ {Str(<<"odd">>)}}

\* SaveToCache that keeps the fallback response out of the cache
SaveToCache_OnlyValidated(cache, symbol, analysis, t, stockPrice) ==
    IF analysis = FallbackAnalysis(stockPrice) THEN cache
    ELSE MapSet(cache, symbol,
                [analysis |-> analysis, timestamp |-> t, stockPrice |-> stockPrice])

\* lines 289-293: analysisCache.set
SaveToCache(cache, symbol, analysis, t, stockPrice) ==
    MapSet(cache, symbol,
           [analysis |-> analysis, timestamp |-> t, stockPrice |-> stockPrice])

AnalysisBody(analysis, model, cached) ==
    [kind |-> "analysis", data |-> analysis, cached |-> cached, model |-> model]

\* lines 56-192: the key, the body, validateSymbol, the cache, the prompt and
\* the call of the text-generation service
AIRequest(r, body) ==
    /\ route = "ai"
    /\ req[r].pc = "idle"
    /\ NextToArrive(r)
    /\ LET q0 == [IdleReq EXCEPT !.raw = body.symbol]
           symbol == validateSymbol(body.symbol)
           q == Stage([q0 EXCEPT !.symbol = symbol,
                                 !.force = body.forceRefresh,
                                 !.model = SelectedModel(body.model),
                                 !.price = PriceIn(body.stockData)],
                      "validate")
           c == IF body.forceRefresh THEN q ELSE Stage([q EXCEPT !.looked = now], "cache")
       IN  req' = [req EXCEPT ![r] =
                IF ~env.openRouterKey
                THEN Respond(q0, 500, ErrorBody("API key not configured"))
                ELSE IF ~body.ok
                THEN Respond(q0, 500, ErrorBody("Server error"))
                ELSE IF symbol = Null
                THEN Respond(q, 400, ErrorBody("Invalid symbol"))
                ELSE IF ~body.forceRefresh
                        /\ IsFresh(analysisCache, symbol.v, now, AI_CACHE_DURATION_MS)
                THEN Respond([c EXCEPT !.hit = TRUE], 200,
                             AnalysisBody(analysisCache[symbol.v].analysis, q.model, TRUE))
                ELSE IF PromptThrows(body.stockData)
                THEN Respond(c, 500, ErrorBody("Server error"))
                ELSE Stage([c EXCEPT !.pc = "fetch", !.fetched = c.fetched + 1],
                           "fetch")]
    /\ UNCHANGED <<route, now, env, limiter, caches, harness>>

\* lines 194-307: the reply of the text-generation service
AIReply(r, reply) ==
    /\ route = "ai"
    /\ req[r].pc = "fetch"
    /\ LET q == req[r]
           parsedAnalysis == ParseAnalysis(reply.content, q.price)
           stored == Stage([q EXCEPT !.wrote = TRUE, !.storedAt = now], "store")
           errorMessage == ErrorMessageOf(reply.message)
       IN  CASE reply.k = "status" /\ reply.status = 403
                               /\ IncludesThrows(errorMessage) ->
                  /\ req' = [req EXCEPT ![r] = Respond(q, 500, ErrorBody("Server error"))]
                  /\ UNCHANGED analysisCache
             [] reply.k = "status" /\ reply.status = 403
                               /\ SaysLimitExceeded(errorMessage) ->
                  /\ req' = [req EXCEPT ![r] =
                        Respond(q, 429, ErrorBody("Rate limit exceeded"))]
                  /\ UNCHANGED analysisCache
             [] reply.k = "status" /\ reply.status = 403
                               /\ ~IncludesThrows(errorMessage)
                               /\ ~SaysLimitExceeded(errorMessage) ->
                  /\ req' = [req EXCEPT ![r] = Respond(q, 403, ErrorBody("Access denied"))]
                  /\ UNCHANGED analysisCache
             [] reply.k = "status" /\ reply.status # 403 ->
                  /\ req' = [req EXCEPT ![r] =
                        Respond(q, reply.status, ErrorBody("AI service error"))]
                  /\ UNCHANGED analysisCache
             [] reply.k \in {"reject", "unreadable"} ->
                  /\ req' = [req EXCEPT ![r] = Respond(q, 500, ErrorBody("Server error"))]
                  /\ UNCHANGED analysisCache
             [] reply.k = "json" /\ ~Truthy(reply.content) ->
                  /\ req' = [req EXCEPT ![r] = Respond(q, 500, ErrorBody("Empty response"))]
                  /\ UNCHANGED analysisCache
             [] reply.k = "json" /\ Truthy(reply.content) ->
                  /\ analysisCache' = SaveToCache(analysisCache, q.symbol.v,
                                                  parsedAnalysis, now, q.price)
                  /\ req' = [req EXCEPT ![r] =
                        Respond(stored, 200,
                                AnalysisBody(parsedAnalysis,
                                             IF Truthy(reply.model)
                                             THEN reply.model.v[1] ELSE q.model,
                                             FALSE))]
    /\ UNCHANGED <<route, now, env, limiter, newsCache, indicatorsCache,
                   cachedData, cacheTime, cachedRate, alphaVantageCache, harness>>

InitAI ==
    /\ InitCaches
    /\ NoTraffic
    /\ route = "ai"
    /\ env \in {AllKeys, [AllKeys EXCEPT !.openRouterKey = FALSE]}

NextAI ==
    \/ \E r \in ReqSlots, body \in AIBodies : AIRequest(r, body)
    \/ \E r \in ReqSlots, reply \in LLMReplies : AIReply(r, reply)
    \/ Advance

SpecAI == InitAI /\ [][NextAI]_vars

(***************************************************************************)
(* Enriched AI analysis route (part_003): POST with the Alpha Vantage      *)
(* indicators, fundamentals and news sentiment gathered for the prompt.    *)
(***************************************************************************)
\* part_003: ALPHA_VANTAGE_CACHE_MS = 15 * 60 * 1000
ALPHA_VANTAGE_CACHE_MS == 900000

\* part_003: FUNDAMENTALS_CACHE_MS = 60 * 60 * 1000
FUNDAMENTALS_CACHE_MS == 3600000

\* requests of the enriched route in flight at once
NumEnrichReqs == 1

EnrichSlots == 1..NumEnrichReqs

\* the four sources, in the order of the Promise.allSettled array
Sources == <<"rsi", "macd", "overview", "news">>

SourceNames == {Sources[i] : i \in DOMAIN Sources}

\* lines 107, 141, 177, 210: the cache key of a source
CacheKey(source, symbol) == <<source, symbol>>

\* lines 108, 142, 178, 211: the maxAge a source passes to getCachedData
MaxAgeOf(source) ==
    IF source = "overview" THEN FUNDAMENTALS_CACHE_MS ELSE ALPHA_VANTAGE_CACHE_MS

\* what a source returned at time t
SourceData(source, t) == [t |-> "object", v |-> <<source, t>>]

\* getCachedData with the age test left out
getCachedData_AnyAge(cache, key, maxAge, t) ==
    IF MapHas(cache, key) THEN cache[key].data ELSE Null

\* lines 92-98
getCachedData(cache, key, maxAge, t) ==
    IF MapHas(cache, key) /\ t - cache[key].timestamp < maxAge
    THEN cache[key].data
    ELSE Null

\* lines 101-103
setCachedData(cache, key, data, t) == MapSet(cache, key, [data |-> data, timestamp |-> t])

\* what the provider answers a source: its data, or a rejected request, a
\* body that is not JSON, a Note or Information about the call limit, or a
\* body without the field the source reads
SourceOutcomes == {"data", "reject", "non-json", "note", "information", "missing"}

NotIssued == [state |-> "none", value |-> Null, outcome |-> "none"]

\* lines 108-109, 142-143, 178-179, 211-212: the source is answered from the
\* cache, or its request is issued
CallSource(source, symbol, t) ==
    LET cached == getCachedData(alphaVantageCache, CacheKey(source, symbol),
                                MaxAgeOf(source), t)
    IN  IF cached.t # "null" THEN [state |-> "hit", value |-> cached, outcome |-> "none"]
        ELSE [state |-> "pending", value |-> Null, outcome |-> "none"]

\* Promise.allSettled has every result
AllSettled(sources) == \A s \in SourceNames : sources[s].state # "pending"

\* lines 575-578
EnhancedData(sources) ==
    [hasRSI |-> sources["rsi"].value.t # "null",
     hasMACD |-> sources["macd"].value.t # "null",
     hasFundamentals |-> sources["overview"].value.t # "null",
     hasNews |-> sources["news"].value.t # "null"]

EnhancedBody(analysis, model, sources) ==
    [kind |-> "analysis", data |-> analysis, cached |-> FALSE, model |-> model,
     enhancedData |-> EnhancedData(sources)]

\* lines 355-471: the prompt reads stockData, then the text-generation
\* service is called
CallModel(q) ==
    IF q.price = NoPrice
    THEN Respond(q, 500, ErrorBody("Server error"))
    ELSE Stage([q EXCEPT !.pc = "fetch", !.fetched = q.fetched + 1], "fetch")

\* the request bodies of the enriched route
EnhancedBodies ==
    {b \in AIBodies : b.model.t = "undefined" \/ b.forceRefresh}

\* the answers of the text-generation service to the enriched route
EnhancedReplies ==
    {reply \in LLMReplies :
        \/ reply.k \in {"reject", "status"}
        \/ reply.k = "json"
           /\ reply.content \in {Undefined, Str(<<"sorry">>), Str(<<"good">>)}}

\* lines 291-353: the key, the body, validateSymbol, the cache of analyses,
\* and the four sources called in one Promise.allSettled
EnhancedRequest(r, body) ==
    /\ route = "enhanced"
    /\ req[r].pc = "idle"
    /\ NextToArrive(r)
    /\ LET q0 == [IdleReq EXCEPT !.raw = body.symbol,
                                 !.sources = [s \in SourceNames |-> NotIssued]]
           symbol == validateSymbol(body.symbol)
           q == Stage([q0 EXCEPT !.symbol = symbol,
                                 !.force = body.forceRefresh,
                                 !.model = SelectedModel(body.model),
                                 !.price = PriceIn(body.stockData)],
                      "validate")
           c == IF body.forceRefresh THEN q ELSE Stage([q EXCEPT !.looked = now], "cache")
           called == [c EXCEPT !.began = now,
                               !.sources = [s \in SourceNames |->
                                               CallSource(s, symbol.v, now)]]
       IN  req' = [req EXCEPT ![r] =
                IF ~env.openRouterKey
                THEN Respond(q0, 500, ErrorBody("API key not configured"))
                ELSE IF ~body.ok
                THEN Respond(q0, 500, ErrorBody("Server error"))
                ELSE IF symbol = Null
                THEN Respond(q, 400, ErrorBody("Invalid symbol"))
                ELSE IF ~body.forceRefresh
                        /\ IsFresh(analysisCache, symbol.v, now, AI_CACHE_DURATION_MS)
                THEN Respond([c EXCEPT !.hit = TRUE], 200,
                             AnalysisBody(analysisCache[symbol.v].analysis, q.model, TRUE))
                ELSE IF ~env.alphaVantageKey
                THEN CallModel(c)
                ELSE IF AllSettled(called.sources)
                THEN CallModel(called)
                ELSE Stage([called EXCEPT !.pc = "enrich"], "enrich")]
    /\ UNCHANGED <<route, now, env, limiter, caches, harness>>

\* SourceSettles as Promise.all would have it: the first source to fail ends
\* the request
SourceSettles_AllOrNothing(r, source, outcome) ==
    /\ route = "enhanced"
    /\ req[r].pc = "enrich"
    /\ req[r].sources[source].state = "pending"
    /\ LET q == req[r]
           result == SourceData(source, now)
           settled ==
               [q EXCEPT !.sources[source] =
                   [state |-> "settled",
                    value |-> IF outcome = "data" THEN result ELSE Null,
                    outcome |-> outcome]]
       IN  /\ alphaVantageCache' =
                  IF outcome = "data"
                  THEN setCachedData(alphaVantageCache, CacheKey(source, q.symbol.v),
                                     result, now)
                  ELSE alphaVantageCache
           /\ req' = [req EXCEPT ![r] =
                  IF outcome # "data" THEN Respond(settled, 500, ErrorBody("Server error"))
                  ELSE IF AllSettled(settled.sources) THEN CallModel(settled)
                  ELSE settled]
    /\ UNCHANGED <<route, now, env, limiter, newsCache, indicatorsCache,
                   analysisCache, cachedData, cacheTime, cachedRate, harness>>

\* lines 111-136, 145-172, 181-205, 214-245: one source's request settles;
\* the last to settle resumes the handler at line 348
SourceSettles(r, source, outcome) ==
    /\ route = "enhanced"
    /\ req[r].pc = "enrich"
    /\ req[r].sources[source].state = "pending"
    /\ LET q == req[r]
           result == SourceData(source, now)
           settled ==
               [q EXCEPT !.sources[source] =
                   [state |-> "settled",
                    value |-> IF outcome = "data" THEN result ELSE Null,
                    outcome |-> outcome]]
       IN  /\ alphaVantageCache' =
                  IF outcome = "data"
                  THEN setCachedData(alphaVantageCache, CacheKey(source, q.symbol.v),
                                     result, now)
                  ELSE alphaVantageCache
           /\ req' = [req EXCEPT ![r] =
                  IF AllSettled(settled.sources) THEN CallModel(settled) ELSE settled]
    /\ UNCHANGED <<route, now, env, limiter, newsCache, indicatorsCache,
                   analysisCache, cachedData, cacheTime, cachedRate, harness>>

\* lines 473-586: the reply of the text-generation service
EnhancedReply(r, reply) ==
    /\ route = "enhanced"
    /\ req[r].pc = "fetch"
    /\ LET q == req[r]
           parsedAnalysis == ParseAnalysis(reply.content, q.price)
           stored == Stage([q EXCEPT !.wrote = TRUE, !.storedAt = now], "store")
           errorMessage == ErrorMessageOf(reply.message)
       IN  CASE reply.k = "status" /\ reply.status = 403
                               /\ IncludesThrows(errorMessage) ->
                  /\ req' = [req EXCEPT ![r] = Respond(q, 500, ErrorBody("Server error"))]
                  /\ UNCHANGED analysisCache
             [] reply.k = "status" /\ reply.status = 403
                               /\ SaysLimitExceeded(errorMessage) ->
                  /\ req' = [req EXCEPT ![r] =
                        Respond(q, 429, ErrorBody("Rate limit exceeded"))]
                  /\ UNCHANGED analysisCache
             [] reply.k = "status" /\ reply.status = 403
                               /\ ~IncludesThrows(errorMessage)
                               /\ ~SaysLimitExceeded(errorMessage) ->
                  /\ req' = [req EXCEPT ![r] = Respond(q, 403, ErrorBody("Access denied"))]
                  /\ UNCHANGED analysisCache
             [] reply.k = "status" /\ reply.status # 403 ->
                  /\ req' = [req EXCEPT ![r] =
                        Respond(q, reply.status, ErrorBody("AI service error"))]
                  /\ UNCHANGED analysisCache
             [] reply.k \in {"reject", "unreadable"} ->
                  /\ req' = [req EXCEPT ![r] = Respond(q, 500, ErrorBody("Server error"))]
                  /\ UNCHANGED analysisCache
             [] reply.k = "json" /\ ~Truthy(reply.content) ->
                  /\ req' = [req EXCEPT ![r] = Respond(q, 500, ErrorBody("Empty response"))]
                  /\ UNCHANGED analysisCache
             [] reply.k = "json" /\ Truthy(reply.content) ->
                  /\ analysisCache' = SaveToCache(analysisCache, q.symbol.v,
                                                  parsedAnalysis, now, q.price)
                  /\ req' = [req EXCEPT ![r] =
                        Respond(stored, 200,
                                EnhancedBody(parsedAnalysis,
                                             IF Truthy(reply.model)
                                             THEN reply.model.v[1] ELSE q.model,
                                             q.sources))]
    /\ UNCHANGED <<route, now, env, limiter, newsCache, indicatorsCache,
                   cachedData, cacheTime, cachedRate, alphaVantageCache, harness>>

\* the response has been delivered: the slot takes the next request
EnhancedFinish(r) ==
    /\ route = "enhanced"
    /\ req[r].pc = "done"
    /\ req' = [req EXCEPT ![r] = IdleReq]
    /\ UNCHANGED <<route, now, env, limiter, caches, harness>>

\* the instants at which the clock is read: 0, 10 min, 60 min, 70 min, ...
InstantAt(k) == (k \div 2) * AI_CACHE_DURATION_MS + (k % 2) * 600000

\* time passes to the next instant
Elapse ==
    /\ route = "enhanced"
    /\ \E k \in 0..(MaxTicks - 1) : now = InstantAt(k) /\ now' = InstantAt(k + 1)
    /\ UNCHANGED <<route, env, limiter, caches, req, harness>>

InitEnhanced ==
    /\ InitCaches
    /\ NoTraffic
    /\ route = "enhanced"
    /\ env \in {AllKeys, [AllKeys EXCEPT !.alphaVantageKey = FALSE]}

\* the enriched route as time passes: a source gives its data or fails
NextEnhanced ==
    \/ \E r \in EnrichSlots, body \in EnhancedBodies : EnhancedRequest(r, body)
    \/ \E r \in EnrichSlots, i \in DOMAIN Sources, o \in {"data", "reject"} :
           SourceSettles(r, Sources[i], o)
    \/ \E r \in EnrichSlots, reply \in EnhancedReplies : EnhancedReply(r, reply)
    \/ \E r \in EnrichSlots : EnhancedFinish(r)
    \/ Elapse

SpecEnhanced == InitEnhanced /\ [][NextEnhanced]_vars

\* the enriched route at one instant, with every way a source can fail
NextEnrichment ==
    \/ \E r \in EnrichSlots, body \in EnhancedBodies : EnhancedRequest(r, body)
    \/ \E r \in EnrichSlots, i \in DOMAIN Sources, o \in SourceOutcomes :
           SourceSettles(r, Sources[i], o)
    \/ \E r \in EnrichSlots, reply \in EnhancedReplies : EnhancedReply(r, reply)
    \/ \E r \in EnrichSlots : EnhancedFinish(r)

SpecEnrichment == InitEnhanced /\ [][NextEnrichment]_vars

(***************************************************************************)
(* Validator harness: validateSymbol applied to one input.                 *)
(***************************************************************************)
RECURSIVE Rep(_, _)
Rep(c, k) == IF k = 0 THEN <<>> ELSE <<c>> \o Rep(c, k - 1)

Affixes == {<<>>, <<" ">>, <<"$">>, <<"a">>}

SymInputs ==
    {Str(pre \o Rep(c, k) \o suf) :
        pre \in Affixes, suf \in Affixes, c \in Chars, k \in 0..MaxRun}
    \cup RawSymbols \cup {Undefined, Null}

InitSym ==
    /\ InitServer
    /\ route = "validator"
    /\ env = AllKeys
    /\ symIn \in SymInputs
    /\ symOut = Pending

ValidateInput ==
    /\ route = "validator"
    /\ symOut = Pending
    /\ symOut' = validateSymbol(symIn)
    /\ UNCHANGED <<route, now, env, limiter, caches, req, symIn, arg, ret>>

NextSym == ValidateInput

SpecSym == InitSym /\ [][NextSym]_vars

(***************************************************************************)
(* Function harness: one pure function of the metrics engine applied to    *)
(* one argument.  `route` names the function, `arg` is the argument and    *)
(* `ret` the value returned.                                               *)
(***************************************************************************)
InitFunction(fn, args) ==
    /\ now = 0
    /\ NoTraffic
    /\ newsCache = EmptyMap
    /\ indicatorsCache = EmptyMap
    /\ analysisCache = EmptyMap
    /\ cachedData = Null
    /\ cachedRate = Null
    /\ cacheTime = 0
    /\ alphaVantageCache = EmptyMap
    /\ req = [r \in Slots |-> IdleReq]
    /\ symIn = Undefined
    /\ symOut = Pending
    /\ env = AllKeys
    /\ route = fn
    /\ arg \in args
    /\ ret = Pending

\* the function named by `route` returns `value`
Return(fn, value) ==
    /\ route = fn
    /\ ret.t = "pending"
    /\ ret' = value
    /\ UNCHANGED <<route, now, env, limiter, caches, req, symIn, symOut, arg>>

\* fetchRSI, lines 124-128 of the enriched AI route: the signal of the
\* provider's RSI value (in hundredths)
fetchRSISignal(rsiValue) ==
    LET s0 == "Neutral"
    IN  IF rsiValue >= 7000 THEN "Overbought"
        ELSE IF rsiValue >= 6000 THEN "Bullish"
        ELSE IF rsiValue <= 3000 THEN "Oversold"
        ELSE IF rsiValue <= 4000 THEN "Bearish"
        ELSE s0

\* half-width, in hundredths, of the band of RSI values around a threshold
SignalBand == 25

\* RSI values in hundredths: around every threshold, the ends of the scale
\* and values off the scale
RSIValues ==
    UNION {(th - SignalBand)..(th + SignalBand) : th \in {3000, 4000, 6000, 7000}}
    \cup {-100, -1, 0, 1, 1500, 3500, 5000, 6500, 8500, 9999, 10000, 10001, 20000}

InitSignal == InitFunction("getRSISignal", RSIValues)

\* both classifications of one RSI value
ClassifyRSI ==
    Return("getRSISignal",
           [t |-> "signals", endpoint |-> getRSISignal(arg),
            enrichment |-> fetchRSISignal(arg)])

NextSignal == ClassifyRSI

SpecSignal == InitSignal /\ [][NextSignal]_vars

\* longest close-price series handed to calculateRSI
MaxSeries == 17

\* a series of `len` closes in cents that starts at `base` and rises by
\* `step` a day, with one day at `day` that moves by `jump` instead
Series(base, len, step, day, jump) ==
    [i \in 1..len |-> base + step * (i - 1)
                      + (IF i >= day THEN jump - step ELSE 0)]

\* close-price series: rising throughout (jump >= 0) or with one falling day
\* (jump < 0), of 13 closes and more
CloseSeries ==
    {Series(base, len, step, day, jump) :
        base \in {10000}, len \in 13..MaxSeries, step \in 0..2,
        day \in {2, 8, 15, 16}, jump \in {-3, 0, 1, 5}}

InitRSI == InitFunction("calculateRSI", CloseSeries)

\* calculateRSI(closePrices) and the signal of its value
ComputeRSI ==
    LET rsiValue == calculateRSI(arg)
    IN  Return("calculateRSI",
               IF rsiValue.t = "null" THEN Null
               ELSE [t |-> "number", v |-> rsiValue.v,
                     signal |-> getRSISignal(rsiValue.v)])

NextRSI == ComputeRSI

SpecRSI == InitRSI /\ [][NextRSI]_vars

\* longest price series handed to calculateSharpeRatio
MaxPrices == 5

\* prices in thousandths: nothing, the smallest, and prices of a share
FlatPrices == {0, 1, 4, 10004, 151236, 250000}

\* price series: the empty one, constant ones of every length, series that
\* rise or fall, and series that grow by the same rate every day
PriceSeries ==
    {<<>>, <<1000, 1100, 1210>>, <<1000, 1100, 1210, 1331>>,
     <<100000, 101000, 102010>>, <<10000000, 9000000, 8100001>>}
    \cup {[i \in 1..len |-> c] : len \in 1..MaxPrices, c \in FlatPrices}
    \cup {Series(base, len, step, day, jump) :
             base \in {1000, 151236}, len \in 2..MaxPrices, step \in {0, 6, 1004},
             day \in {2, 3}, jump \in {-994, 0, 2006}}

InitSharpe == InitFunction("calculateSharpeRatio", PriceSeries)

\* calculateSharpeRatio(prices) and the trend of its value
ComputeSharpe ==
    LET sharpeRatio == calculateSharpeRatio(arg)
    IN  Return("calculateSharpeRatio",
               [t |-> "ratio", ratio |-> sharpeRatio,
                trend |-> determineTrend(sharpeRatio)])

NextSharpe == ComputeSharpe

SpecSharpe == InitSharpe /\ [][NextSharpe]_vars

\* half-width, in hundredths, of the band of Sharpe ratios around a threshold
TrendBand == 60

\* Sharpe ratios: numbers in hundredths around 0 and 0.5 and far from them,
\* the ratios of series that grow and shrink by the same rate every day,
\* the infinities and NaN
SharpeRatios ==
    {[t |-> "number", v |-> x] :
        x \in (-TrendBand..(50 + TrendBand)) \cup {-100000, -1000, 1000, 100000}}
    \cup {calculateSharpeRatio(<<1000, 1100, 1210, 1331>>),
          calculateSharpeRatio(<<10000000, 9000000, 8100001>>),
          Infinite, NegInfinite, NaN}

InitTrend == InitFunction("determineTrend", SharpeRatios)

ClassifyTrend == Return("determineTrend", [t |-> "trend", v |-> determineTrend(arg)])

NextTrend == ClassifyTrend

SpecTrend == InitTrend /\ [][NextTrend]_vars

\* String.prototype.toUpperCase on a word of lower-case letters
Capitals(s) ==
    [i \in 1..Len(s) |->
        UpperLetters[CHOOSE k \in 1..Len(LowerLetters) : LowerLetters[k] = s[i]]]

Capitalized(s) == <<Capitals(s)[1]>> \o Tail(s)

\* longest run of words in a label
MaxWords == 2

\* the words of a label: the four keywords in three spellings, a keyword cut
\* short, a keyword broken by a blank, and other words
LabelWords ==
    UNION {{w, Capitalized(w), Capitals(w)} : w \in {Bullish, Positive, Bearish, Negative}}
    \cup {<<"b", "u", "l", "l", "i", "s">>, <<"b", "u", "l", "l", " ", "i", "s", "h">>, <<"n", "e", "g", "a", "t", "i", "v">>, <<"N", "e", "u", "t", "r", "a", "l">>, <<"m", "i", "x", "e", "d">>, <<"S", "o", "m", "e", "w", "h", "a", "t">>,
          <<>>}

RECURSIVE Labels(_)
\* the labels of up to k words joined by hyphens
Labels(k) ==
    IF k = 1 THEN LabelWords
    ELSE Labels(k - 1) \cup {l \o <<"-">> \o w : l \in Labels(k - 1), w \in LabelWords}

InitSentiment == InitFunction("mapSentiment", Labels(MaxWords))

\* both mappings of one label
MapLabel ==
    Return("mapSentiment",
           [t |-> "sentiments", news |-> mapSentiment(arg),
            enrichment |-> mapSentimentLabel(arg)])

NextSentiment == MapLabel

SpecSentiment == InitSentiment /\ [][NextSentiment]_vars

\* the texts a feed entry gives as a score: missing, empty, decimals inside
\* and outside [-1, 1], with an exponent, with text after the number, and
\* texts that are no number
ScoreTexts ==
    {Undefined, Str(<<>>),
     Str(<<"0", ".", "2", "5">>), Str(<<"0", ".", "2", "5", "6", "7", "8", "9">>),
     Str(<<"-", "0", ".", "6">>), Str(<<"1">>),
     Str(<<"-", "1", ".", "0">>), Str(<<"1", ".", "5">>), Str(<<"-", "2">>),
     Str(<<".", "5">>), Str(<<" ", "0", ".", "1">>), Str(<<"0", ".", "3", "x">>),
     Str(<<"2", "e", "-", "1">>), Str(<<"1", "e", "1">>),
     Str(<<"N", "/", "A">>), Str(<<"I", "n", "f", "i", "n", "i", "t", "y">>)}

\* the feed entries the mapping is applied to
FeedEntries ==
    {FeedEntry("t", relevance, tickerLabel, tickerScore, overallLabel, overallScore) :
        relevance \in {"none", "high", "low"},
        tickerLabel \in {Undefined, Str(<<"S", "o", "m", "e", "w", "h", "a", "t", "-">> \o Capitalized(Bullish))},
        tickerScore \in ScoreTexts,
        overallLabel \in {Undefined, Str(Capitalized(Bearish))},
        overallScore \in ScoreTexts}

InitNewsItem == InitFunction("newsItems", FeedEntries)

\* the feed of one entry filtered, mapped and written as JSON
MapEntry == Return("newsItems", [t |-> "items", v |-> JsonItems(NewsItems(<<arg>>))])

NextNewsItem == MapEntry

SpecNewsItem == InitNewsItem /\ [][NextNewsItem]_vars

\* the symbol of the quotes built below
QuotedSymbol == <<"A", "A", "P", "L">>

\* the meta blocks and bars of the charts: prices of a fraction of a cent, of
\* about one unit (1.005 is halfway between two cents) and of about 150 units, a meta block with and without its
\* prices, a bar with a missing price, and bars that closed at 0
ChartResults ==
    {ChartResult(Meta(price, chartPrevious, previous, AppleName, <<>>), bars) :
        price \in {0, 13, 1004, 1005, 150637},
        chartPrevious \in {0, 7, 997, 150003},
        previous \in {0, 1003},
        bars \in {<<Bar(1003)>>,
                  <<Bar(997), Bar(1004)>>,
                  <<Bar(0), Bar(0)>>,
                  <<Bar(7), Bar(13), Bar(4)>>,
                  <<Bar(150003), HoleBar(1), Bar(150637), Bar(149004)>>}}

\* the widest step of a demo close from the base price, about 1%
DrawSpread == 2007

\* the five closes of the demo data around a base price between 150 and 250
DemoDraws ==
    {<<base + 3, base + early, base - 1997, base + d4, base + d5>> :
        base \in {150000, 249990},
        early \in {-1496, DrawSpread},
        d4 \in {-1997, 3, 1504, DrawSpread},
        d5 \in {-1997, 3, 1504, DrawSpread}}

QuoteInputs ==
    {[t |-> "chart", result |-> r] : r \in ChartResults}
    \cup {[t |-> "demo", prices |-> d] : d \in DemoDraws}

InitQuoteData == InitFunction("stockData", QuoteInputs)

\* the quote of a chart with a complete bar (lines 176-228), or the demo data
BuildQuote ==
    Return("stockData",
           [t |-> "quote",
            v |-> IF arg.t = "chart"
                  THEN StockData(QuotedSymbol, arg.result, ChartFigures(arg.result))
                  ELSE generateDemoData(QuotedSymbol, DemoFigures(arg.prices))])

NextQuoteData == BuildQuote

SpecQuoteData == InitQuoteData /\ [][NextQuoteData]_vars

(***************************************************************************)
(* Client side: the RateLimiter of lib/validation (part_004).  The object  *)
(* is held in `arg`, the last result in `ret`, and `now` is the browser's  *)
(* clock.  `granted` records the instant of the last call that returned    *)
(* true; the class never reads it.                                         *)
(***************************************************************************)
\* part_004 line 92: the default of minIntervalMs
DefaultMinInterval == 1000

\* the clock runs for this many intervals
LimiterRounds == 3

\* new RateLimiter(minIntervalMs), lines 89-94
NewRateLimiter(minIntervalMs) ==
    [t |-> "limiter", lastCall |-> 0, minInterval |-> minIntervalMs, granted |-> -1]

\* canCall stamping lastCall also when it refuses
canCall_StampsRefusal(self, t) ==
    [result |-> ~(t - self.lastCall < self.minInterval),
     self |-> [self EXCEPT !.lastCall = t]]

\* lines 96-103
canCall(self, t) ==
    IF t - self.lastCall < self.minInterval
    THEN [result |-> FALSE, self |-> self]
    ELSE [result |-> TRUE, self |-> [self EXCEPT !.lastCall = t]]

\* lines 105-108
getRemainingTime(self, t) ==
    LET elapsed == t - self.lastCall
    IN  IF self.minInterval - elapsed > 0 THEN self.minInterval - elapsed ELSE 0

InitRateLimiter ==
    InitFunction("rateLimiter", {NewRateLimiter(m) : m \in {0, 2, DefaultMinInterval}})

CanCall ==
    /\ route = "rateLimiter"
    /\ LET res == canCall(arg, now)
       IN  /\ arg' = [res.self EXCEPT !.granted = IF res.result THEN now ELSE @]
           /\ ret' = [t |-> "canCall", ok |-> res.result, at |-> now]
    /\ UNCHANGED <<route, now, env, limiter, caches, req, symIn, symOut>>

GetRemainingTime ==
    /\ route = "rateLimiter"
    /\ ret' = [t |-> "remaining", ms |-> getRemainingTime(arg, now), at |-> now]
    /\ UNCHANGED <<route, now, env, limiter, caches, req, symIn, symOut, arg>>

\* the instants the clock shows: those next to a multiple of the interval
OnBoundary(t, minInterval) ==
    IF minInterval < 3 THEN TRUE ELSE t % minInterval \in {0, 1, minInterval - 1}

\* Date.now() moves on by a millisecond, by one short of the interval, or by
\* the interval
ClockTicks(d) ==
    /\ route = "rateLimiter"
    /\ d > 0
    /\ now + d <= LimiterRounds * (arg.minInterval + 1)
    /\ OnBoundary(now + d, arg.minInterval)
    /\ now' = now + d
    /\ UNCHANGED <<route, env, limiter, caches, req, harness>>

NextRateLimiter ==
    \/ CanCall
    \/ GetRemainingTime
    \/ \E d \in {1, arg.minInterval - 1, arg.minInterval} : ClockTicks(d)

SpecRateLimiter == InitRateLimiter /\ [][NextRateLimiter]_vars

(***************************************************************************)
(* Client side: the watchlist hook (hooks/use-watchlist.ts).  The state of *)
(* the hook is held in `arg`, the last call in `ret`; symbols are numbered *)
(* tickers.                                                                *)
(***************************************************************************)
\* use-watchlist.ts line 7
MAX_ITEMS == 20

\* tickers beyond the capacity of the list
SpareSymbols == 2

\* the tickers that are added out of turn, under two names, and removed
NumMovers == 1

\* the clock of the watchlist stops here
WatchTicks == 1

WatchSymbols == 1..(MAX_ITEMS + SpareSymbols)

Movers == (MAX_ITEMS + SpareSymbols - NumMovers + 1)..(MAX_ITEMS + SpareSymbols)

HasSymbol(list, symbol) == \E i \in 1..Len(list) : list[i].symbol = symbol

\* addToWatchlist that puts the new entry first
addToWatchlist_NewestFirst(prev, symbol, name, t) ==
    IF HasSymbol(prev, symbol) THEN prev
    ELSE LET all == <<[symbol |-> symbol, name |-> name, addedAt |-> t]>> \o prev
         IN  SubSeq(all, 1, IF Len(all) < MAX_ITEMS THEN Len(all) ELSE MAX_ITEMS)

\* lines 37-50: the updater of addToWatchlist
addToWatchlist(prev, symbol, name, t) ==
    IF HasSymbol(prev, symbol) THEN prev
    ELSE LET all == Append(prev, [symbol |-> symbol, name |-> name, addedAt |-> t])
         IN  SubSeq(all, 1, IF Len(all) < MAX_ITEMS THEN Len(all) ELSE MAX_ITEMS)

\* lines 52-54: the updater of removeFromWatchlist
removeFromWatchlist(prev, symbol) ==
    LET Other(item) == item.symbol # symbol IN SelectSeq(prev, Other)

\* the state of the hook, and the call that was made last
WatchState(list) == [t |-> "watchlist", list |-> list]

WatchCall(op, symbol, before) ==
    [t |-> "call", op |-> op, symbol |-> symbol, before |-> before]

\* the lowest ticker that is not in the list
LowestAbsent(list) ==
    CHOOSE n \in WatchSymbols :
        /\ ~HasSymbol(list, n)
        /\ \A m \in 1..(n - 1) : HasSymbol(list, m)

InitWatchlist == InitFunction("watchlist", {WatchState(<<>>)})

AddToWatchlist(symbol, name) ==
    /\ route = "watchlist"
    /\ arg' = WatchState(addToWatchlist(arg.list, symbol, name, now))
    /\ ret' = WatchCall("add", symbol, Len(arg.list))
    /\ UNCHANGED <<route, now, env, limiter, caches, req, symIn, symOut>>

RemoveFromWatchlist(symbol) ==
    /\ route = "watchlist"
    /\ arg' = WatchState(removeFromWatchlist(arg.list, symbol))
    /\ ret' = WatchCall("remove", symbol, Len(arg.list))
    /\ UNCHANGED <<route, now, env, limiter, caches, req, symIn, symOut>>

\* lines 63-65
ClearWatchlist ==
    /\ route = "watchlist"
    /\ arg' = WatchState(<<>>)
    /\ ret' = WatchCall("clear", 0, Len(arg.list))
    /\ UNCHANGED <<route, now, env, limiter, caches, req, symIn, symOut>>

WatchClockTicks ==
    /\ route = "watchlist"
    /\ now < WatchTicks
    /\ now' = now + 1
    /\ UNCHANGED <<route, env, limiter, caches, req, harness>>

NextWatchlist ==
    \/ \E symbol \in Movers : AddToWatchlist(symbol, "name")
    \/ \E i \in 1..Len(arg.list) :
           i \in {1, Len(arg.list)} /\ AddToWatchlist(arg.list[i].symbol, "other")
    \/ /\ \E n \in WatchSymbols : ~HasSymbol(arg.list, n)
       /\ AddToWatchlist(LowestAbsent(arg.list), "name")
    \/ \E symbol \in Movers : RemoveFromWatchlist(symbol)
    \/ ClearWatchlist
    \/ WatchClockTicks

SpecWatchlist == InitWatchlist /\ [][NextWatchlist]_vars

(***************************************************************************)
(* Client side: the search history hook (useSearchHistory in               *)
(* components/features/stock-analyzer.tsx).  The state of the hook is held *)
(* in `arg`, the last call in `ret`; symbols are numbered tickers.         *)
(***************************************************************************)
\* stock-analyzer.tsx line 672: MAX_ITEMS of the search history
HISTORY_MAX_ITEMS == 10

\* tickers beyond the capacity of the history
SpareSearches == 1

\* the clock of the history stops here
HistoryTicks == 1

HistorySymbols == 1..(HISTORY_MAX_ITEMS + SpareSearches)

\* addToHistory that keeps the entry of a symbol that is present where it is
addToHistory_KeepsPlace(prev, symbol, name, t) ==
    IF HasSymbol(prev, symbol) THEN prev
    ELSE LET all == <<[symbol |-> symbol, name |-> name, timestamp |-> t]>> \o prev
         IN  SubSeq(all, 1, IF Len(all) < HISTORY_MAX_ITEMS THEN Len(all)
                            ELSE HISTORY_MAX_ITEMS)

\* lines 702-713: the updater of addToHistory
addToHistory(prev, symbol, name, t) ==
    LET Other(item) == item.symbol # symbol
        filtered == SelectSeq(prev, Other)
        all == <<[symbol |-> symbol, name |-> name, timestamp |-> t]>> \o filtered
    IN  SubSeq(all, 1, IF Len(all) < HISTORY_MAX_ITEMS THEN Len(all)
                       ELSE HISTORY_MAX_ITEMS)

\* lines 715-717: the updater of removeFromHistory
removeFromHistory(prev, symbol) ==
    LET Other(item) == item.symbol # symbol IN SelectSeq(prev, Other)

HistoryState(list) == [t |-> "history", list |-> list]

\* the lowest ticker that is not in the history
LowestUnsearched(list) ==
    CHOOSE n \in HistorySymbols :
        /\ ~HasSymbol(list, n)
        /\ \A m \in 1..(n - 1) : HasSymbol(list, m)

InitHistory == InitFunction("history", {HistoryState(<<>>)})

AddToHistory(symbol, name) ==
    /\ route = "history"
    /\ arg' = HistoryState(addToHistory(arg.list, symbol, name, now))
    /\ ret' = WatchCall("add", symbol, Len(arg.list))
    /\ UNCHANGED <<route, now, env, limiter, caches, req, symIn, symOut>>

RemoveFromHistory(symbol) ==
    /\ route = "history"
    /\ arg' = HistoryState(removeFromHistory(arg.list, symbol))
    /\ ret' = WatchCall("remove", symbol, Len(arg.list))
    /\ UNCHANGED <<route, now, env, limiter, caches, req, symIn, symOut>>

\* lines 719-721
ClearHistory ==
    /\ route = "history"
    /\ arg' = HistoryState(<<>>)
    /\ ret' = WatchCall("clear", 0, Len(arg.list))
    /\ UNCHANGED <<route, now, env, limiter, caches, req, symIn, symOut>>

HistoryClockTicks ==
    /\ route = "history"
    /\ now < HistoryTicks
    /\ now' = now + 1
    /\ UNCHANGED <<route, env, limiter, caches, req, harness>>

\* the lowest ticker not in the history searched, the last ticker searched
\* (again) under another name, the last ticker removed
NextHistory ==
    \/ /\ \E n \in HistorySymbols : ~HasSymbol(arg.list, n)
       /\ AddToHistory(LowestUnsearched(arg.list), "name")
    \/ AddToHistory(HISTORY_MAX_ITEMS + SpareSearches, "other")
    \/ RemoveFromHistory(HISTORY_MAX_ITEMS + SpareSearches)
    \/ ClearHistory
    \/ HistoryClockTicks

SpecHistory == InitHistory /\ [][NextHistory]_vars

(***************************************************************************)
(* Client side: the RSI of the stock analyzer (StockAnalyzer in            *)
(* components/features/stock-news.tsx).  The state of the component is     *)
(* held in `arg`: the symbol of stockData (0 while stockData is null),     *)
(* rsiData, rsiLoading and the indicators requests in flight, by symbol;   *)
(* `effect` tells that a render with another symbol was committed and its  *)
(* effect is still to run.  React runs the effect of a commit before it    *)
(* renders again.  An RSI carries the symbol it was computed for in `of`;  *)
(* the component has no such field.  `ret` is the settlement that came     *)
(* last.                                                                   *)
(***************************************************************************)
\* indicators requests in flight at once
MaxInFlight == 2

\* the symbols the user searches
NumTickers == 2

Tickers == 1..NumTickers

\* data.rsi of the indicators route for a symbol: an RSI, or null
RsiOf(symbol) == [t |-> "rsi", of |-> symbol]

\* what the indicators request of a symbol settles with
IndicatorSettlements(symbol) ==
    {[k |-> "ok", rsi |-> RsiOf(symbol)], [k |-> "ok", rsi |-> Null],
     [k |-> "status", rsi |-> Null], [k |-> "throw", rsi |-> Null]}

PendingRequests(ui) == SumOver(ui.requests, DOMAIN ui.requests)

InitAnalyzer ==
    InitFunction("analyzer",
                 {[t |-> "analyzer", symbol |-> 0, rsiData |-> Null, rsiLoading |-> FALSE,
                   effect |-> FALSE, requests |-> [n \in Tickers |-> 0]]})

\* line 646: setStockData(data) after a search, and the render it causes;
\* the effect of lines 545-563 is due when stockData.symbol differs from the
\* one of the render before
SetStockData(symbol) ==
    /\ route = "analyzer"
    /\ ~arg.effect
    /\ PendingRequests(arg) < MaxInFlight
    /\ arg' = IF symbol = arg.symbol THEN arg
              ELSE [arg EXCEPT !.symbol = symbol, !.effect = TRUE]
    /\ UNCHANGED <<route, now, env, limiter, caches, req, symIn, symOut, ret>>

\* lines 545-563: the effect runs after the commit, sets rsiLoading and
\* issues the indicators request of the symbol shown
fetchIndicators ==
    /\ route = "analyzer"
    /\ arg.effect
    /\ arg' = [arg EXCEPT !.effect = FALSE,
                          !.rsiLoading = TRUE,
                          !.requests[arg.symbol] = @ + 1]
    /\ UNCHANGED <<route, now, env, limiter, caches, req, symIn, symOut, ret>>

\* lines 550-560: the indicators request of a symbol settles, whether or not
\* the effect of a commit is still due; a due effect then runs before the
\* next render and its setRsiLoading(true) comes after the false set here
IndicatorsSettle(symbol, settlement) ==
    /\ route = "analyzer"
    /\ arg.requests[symbol] > 0
    /\ arg' = [arg EXCEPT !.rsiData = IF settlement.k = "ok" THEN settlement.rsi ELSE @,
                          !.rsiLoading = FALSE,
                          !.requests[symbol] = @ - 1]
    /\ ret' = [t |-> "settled", symbol |-> symbol, k |-> settlement.k,
               rsi |-> settlement.rsi]
    /\ UNCHANGED <<route, now, env, limiter, caches, req, symIn, symOut>>

NextAnalyzer ==
    \/ \E symbol \in Tickers : SetStockData(symbol)
    \/ fetchIndicators
    \/ \E symbol \in Tickers :
           \E settlement \in IndicatorSettlements(symbol) :
               IndicatorsSettle(symbol, settlement)

SpecAnalyzer == InitAnalyzer /\ [][NextAnalyzer]_vars

(***************************************************************************)
(* The server: one route per behaviour, since the routes share no state.   *)
(***************************************************************************)
\* the routes behind the rate limiter
InitLimited == InitQuote \/ InitNews

NextLimited == NextQuote \/ NextNews

SpecLimited == InitLimited /\ [][NextLimited]_vars

\* the routes that keep a cache
InitCached == InitNews \/ InitIndicators \/ InitAI \/ InitMarket \/ InitExchange

NextCached == NextNews \/ NextIndicators \/ NextAI \/ NextMarket \/ NextExchange

SpecCached == InitCached /\ [][NextCached]_vars

\* the routes whose upstream can fail or degrade before a cache is written
InitDegraded == InitNews \/ InitIndicators \/ InitMarket \/ InitExchange \/ InitEnhanced

NextDegraded == NextNews \/ NextIndicators \/ NextMarket \/ NextExchange \/ NextEnrichment

SpecDegraded == InitDegraded /\ [][NextDegraded]_vars

\* every route that keeps a cache in the process
InitEveryCache == InitCached \/ InitEnhanced

NextEveryCache == NextCached \/ NextEnhanced

SpecEveryCache == InitEveryCache /\ [][NextEveryCache]_vars

\* the routes that take a symbol
InitSymbol == InitQuote \/ InitNews \/ InitIndicators \/ InitAI

NextSymbol == NextQuote \/ NextNews \/ NextIndicators \/ NextAI

SpecSymbol == InitSymbol /\ [][NextSymbol]_vars

Init == InitQuote \/ InitNews \/ InitIndicators \/ InitAI \/ InitMarket

Next == NextQuote \/ NextNews \/ NextIndicators \/ NextAI \/ NextMarket

Spec == Init /\ [][Next]_vars

(***************************************************************************)
(* Claims.                                                                 *)
(***************************************************************************)
\* a request has just been taken up by slot r
Begins(r) == req[r].pc = "idle" /\ req'[r].pc # "idle"

\* the limiter rejected the request in slot r
RateLimited(q) == q.pc = "done" /\ q.status = 429 /\ q.trace = <<"ratelimit", "respond">>

\* C1: from a fresh window exactly RATE_LIMIT requests of a client are
\* admitted, the next one inside the window is rejected with 429, and the
\* first request with now > resetTime is admitted and opens a window with
\* count 1.  Stated against the reference fixed window kept in `window`:
\* every request is admitted exactly when the reference admits it.
C1_FixedWindowAdmission ==
    [][\A r \in Slots :
        Begins(r) =>
            LET ip == req'[r].ip
                admitted == ~RateLimited(req'[r])
            IN  /\ admitted <=> RefAllows(window, ip, now)
                /\ RefOpensWindow(window, ip, now) =>
                       /\ admitted
                       /\ rateLimitMap'[ip] = [count |-> 1,
                                               resetTime |-> now + RATE_WINDOW]
                /\ (~RefOpensWindow(window, ip, now) /\ admitted) =>
                       rateLimitMap'[ip].count = window[ip].admits + 1]_vars

\* C1 witness: a request is rejected as the 31st of a window that was opened
\* after an earlier window had elapsed
C1_Witness ==
    \E r \in Slots :
        /\ RateLimited(req[r])
        /\ MapHas(window, req[r].ip)
        /\ window[req[r].ip].start > RATE_WINDOW
        /\ window[req[r].ip].admits = RATE_LIMIT

\* C2 as claimed: in every interval of length RATE_WINDOW at most RATE_LIMIT
\* requests of a client are admitted
C2_SlidingWindow ==
    \A ip \in DOMAIN admitLog : AdmittedInLastWindow(ip) <= RATE_LIMIT

\* C2 amended: the window is fixed, not sliding.  At most RATE_LIMIT requests
\* of a client are admitted between the admission that opens a window and its
\* resetTime, and an interval of length RATE_WINDOW that straddles a reset
\* holds up to 2 * RATE_LIMIT - 1 admissions, never more.
C2_FixedWindow ==
    /\ \A ip \in DOMAIN window : window[ip].admits <= RATE_LIMIT
    /\ \A ip \in DOMAIN admitLog : AdmittedInLastWindow(ip) <= 2 * RATE_LIMIT - 1

\* C2 witness: 2 * RATE_LIMIT - 1 admissions inside one interval of length
\* RATE_WINDOW
C2_Witness ==
    \E ip \in DOMAIN admitLog : AdmittedInLastWindow(ip) = 2 * RATE_LIMIT - 1

\* the characters of [a-zA-Z0-9.-] among those of the model, and their
\* upper-case forms, written out
SymbolAlphabet == {"a", "p", "l", "z", "A", "P", "L", "Z", "0", "9", ".", "-"}

UpperAlphabet == {"A", "P", "L", "Z", "0", "9", ".", "-"}

Alphanumerics == {"a", "p", "l", "z", "A", "P", "L", "Z", "0", "9"}

UpperForm(c) == IF c = "a" THEN "A" ELSE IF c = "p" THEN "P"
                ELSE IF c = "l" THEN "L" ELSE IF c = "z" THEN "Z" ELSE c

RECURSIVE Sanitized(_)
\* s without the characters outside the symbol alphabet, in upper case
Sanitized(s) ==
    IF s = <<>> THEN <<>>
    ELSE (IF Head(s) \in SymbolAlphabet THEN <<UpperForm(Head(s))>> ELSE <<>>)
         \o Sanitized(Tail(s))

\* C8: validateSymbol removes every character outside [a-zA-Z0-9.-],
\* uppercases the rest, and returns it iff its length is 1..10, else null;
\* "aapl " gives "AAPL", "$$$" and every 11-character alphanumeric string are
\* rejected; every result consists of [A-Z0-9.-] and has length 1..10.
C8_ValidateSymbol ==
    symOut # Pending =>
        /\ symIn.t # "string" => symOut = Null
        /\ symIn.t = "string" =>
            LET kept == Sanitized(symIn.v)
            IN  /\ (Len(kept) \in 1..10) => symOut = Str(kept)
                /\ (Len(kept) \notin 1..10) => symOut = Null
        /\ symOut # Null =>
            /\ symOut.t = "string"
            /\ Len(symOut.v) \in 1..10
            /\ \A i \in 1..Len(symOut.v) : symOut.v[i] \in UpperAlphabet
        /\ symIn = Str(<<"a", "a", "p", "l", " ">>) =>
               symOut = Str(<<"A", "A", "P", "L">>)
        /\ symIn = Str(<<"$", "$", "$">>) => symOut = Null
        /\ (/\ symIn.t = "string"
            /\ Len(symIn.v) = 11
            /\ \A i \in 1..11 : symIn.v[i] \in Alphanumerics) => symOut = Null

\* C8 witness: an 11-character alphanumeric input has been rejected
C8_Witness ==
    /\ symIn.t = "string"
    /\ Len(symIn.v) = 11
    /\ \A i \in 1..Len(symIn.v) : symIn.v[i] \in Alphanumerics
    /\ symOut = Null

\* the time to live of the cache of the route
TTLOf ==
    CASE route = "news" -> 5 * 60 * 1000
      [] route = "indicators" -> 5 * 60 * 1000
      [] route = "ai" -> 60 * 60 * 1000
      [] route = "enhanced" -> 60 * 60 * 1000
      [] route = "market" -> 60 * 1000
      [] route = "exchange" -> 5 * 60 * 1000
      [] OTHER -> 0

\* the upstream requests of one miss: the market route asks for every index
UpstreamCalls == IF route = "market" THEN 3 ELSE 1

Absent == [present |-> FALSE, data |-> <<>>, timestamp |-> 0]

\* the entry the caches nc, ic, ac, cd, cr, ct hold for the key of request q
CacheEntry(nc, ic, ac, cd, cr, ct, q) ==
    CASE route = "news" /\ MapHas(nc, q.symbol.v) ->
            [present |-> TRUE, data |-> nc[q.symbol.v].data,
             timestamp |-> nc[q.symbol.v].timestamp]
      [] route = "indicators" /\ MapHas(ic, q.symbol.v) ->
            [present |-> TRUE, data |-> ic[q.symbol.v].data,
             timestamp |-> ic[q.symbol.v].timestamp]
      [] route \in {"ai", "enhanced"} /\ MapHas(ac, q.symbol.v) ->
            [present |-> TRUE, data |-> ac[q.symbol.v].analysis,
             timestamp |-> ac[q.symbol.v].timestamp]
      [] route = "market" /\ cd # Null ->
            [present |-> TRUE, data |-> cd, timestamp |-> ct]
      [] route = "exchange" /\ cr.t # "null" ->
            [present |-> TRUE, data |-> cr, timestamp |-> ct]
      [] OTHER -> Absent

\* the time a request came to its cache: the market and exchange-rate
\* handlers read the clock as they begin, the other handlers as they look the
\* key up
Arrival(q) == IF route \in {"market", "exchange"} THEN q.began ELSE q.looked

\* two requests occur within one time to live of each other
WithinTTL(q1, q2) ==
    /\ Arrival(q1) - Arrival(q2) < TTLOf
    /\ Arrival(q2) - Arrival(q1) < TTLOf

Answered(q) == q.pc = "done" /\ q.status = 200

\* C3 as claimed: any two answered requests for the same key that occur
\* within the TTL of their cache, however they interleave, issue one upstream
\* request between them and return identical data
C3_CacheIdempotence ==
    \A r \in ReqSlots, s \in ReqSlots :
        (/\ r # s
         /\ Answered(req[r]) /\ Answered(req[s])
         /\ req[r].symbol = req[s].symbol
         /\ ~req[r].force /\ ~req[s].force
         /\ WithinTTL(req[r], req[s])) =>
            /\ req[r].fetched + req[s].fetched = UpstreamCalls
            /\ req[r].body.data = req[s].body.data

\* C3 amended: a request served from the cache issues no upstream request and
\* returns exactly the data that another request for the same key fetched,
\* with one round of upstream requests, and stored less than the TTL before
\* the lookup.  Requests that both miss fetch separately.
C3_HitServesStoredData ==
    \A r \in ReqSlots :
        (req[r].pc = "done" /\ req[r].hit) =>
            /\ req[r].status = 200
            /\ req[r].fetched = 0
            /\ ~req[r].wrote
            /\ \E s \in ReqSlots \ {r} :
                /\ Answered(req[s]) /\ req[s].wrote
                /\ req[s].symbol = req[r].symbol
                /\ req[s].fetched = UpstreamCalls
                /\ req[s].body.data = req[r].body.data
                /\ req[s].storedAt <= req[r].looked
                /\ req[r].looked - req[s].storedAt < TTLOf

\* on the exchange-rate route a request was served the rate another had
\* stored, and two requests that both missed each went to the provider
C3_ExchangeWitness ==
    /\ route = "exchange"
    /\ \E r \in ReqSlots, s \in ReqSlots :
        /\ req[r].pc = "done" /\ req[r].hit
        /\ req[s].wrote
        /\ req[r].body.data = req[s].body.data
        /\ req[r].body.data.v.rate = 347600

C3_ExchangeMissesWitness ==
    /\ route = "exchange"
    /\ \E r \in ReqSlots, s \in ReqSlots :
        /\ r # s
        /\ Answered(req[r]) /\ Answered(req[s])
        /\ WithinTTL(req[r], req[s])
        /\ req[r].fetched = 1 /\ req[s].fetched = 1
        /\ req[r].wrote /\ req[s].wrote
        /\ req[r].body.data # req[s].body.data

\* C3 witness: on the news route a request was served what another had stored
C3_Witness ==
    /\ route = "news"
    /\ \E r \in ReqSlots, s \in ReqSlots :
        /\ req[r].pc = "done" /\ req[r].hit
        /\ req[s].wrote
        /\ req[r].body.data = req[s].body.data
        /\ req[r].looked > req[s].storedAt

\* a hit is served only from an entry younger than the TTL
ServesOnlyFresh(r) ==
    LET q == req'[r]
        entry == CacheEntry(newsCache, indicatorsCache, analysisCache,
                            cachedData, cachedRate, cacheTime, q)
    IN  (q.hit /\ ~req[r].hit) =>
            /\ entry.present
            /\ now - entry.timestamp < TTLOf
            /\ q.body.data = entry.data

\* a lookup that finds an entry of age TTL or more is not served from it
StaleIsMiss(r) ==
    LET q == req'[r]
        entry == CacheEntry(newsCache, indicatorsCache, analysisCache,
                            cachedData, cachedRate, cacheTime, q)
    IN  (/\ req[r].looked < 0 /\ q.looked >= 0
         /\ entry.present /\ now - entry.timestamp >= TTLOf) =>
            /\ ~q.hit
            /\ q.pc = "fetch" \/ q.status # 200

\* a store leaves the entry holding the new data and the time of the store
StoreIsFresh(r) ==
    LET q == req'[r]
        entry == CacheEntry(newsCache', indicatorsCache', analysisCache',
                            cachedData', cachedRate', cacheTime', q)
    IN  (q.wrote /\ ~req[r].wrote) =>
            entry = [present |-> TRUE, data |-> q.body.data, timestamp |-> now]

\* C4 as claimed: a stored entry is returned only while now - timestamp < TTL,
\* an entry of age >= TTL is treated as a miss, and every successful store
\* overwrites the entry with the new data and a fresh timestamp
C4_CacheFreshness ==
    [][\A r \in ReqSlots :
          ServesOnlyFresh(r) /\ StaleIsMiss(r) /\ StoreIsFresh(r)]_vars

\* C4 witness: the market route has just stored data under the time its
\* handler began, a full TTL before the store: the entry is born expired
C4_Witness ==
    /\ route = "market"
    /\ \E r \in ReqSlots :
        /\ req[r].wrote
        /\ req[r].storedAt = now
        /\ cachedData = req[r].body.data
        /\ cacheTime = req[r].began
        /\ now - cacheTime >= TTLOf

SchemaKeys ==
    {"score", "prediction", "confidence", "reasons", "bottomFishing",
     "priceTarget", "riskFactors"}

IsPayload(lexeme) == lexeme \notin {Blank, Fence, FenceJson}

\* the reply's content is JSON of an object with every key of the schema,
\* arrays where arrays are due and a score in [1,10]
WellFormed(reply) ==
    /\ reply.k = "json"
    /\ reply.content.t = "string"
    /\ LET payload == SelectSeq(reply.content.v, IsPayload)
       IN  /\ Len(payload) = 1
           /\ payload[1] \in DOMAIN JsonText
           /\ LET value == JsonText[payload[1]]
              IN  /\ value.t = "object"
                  /\ \A key \in SchemaKeys : value.v[key].t # "undefined"
                  /\ value.v.score.t = "number"
                  /\ value.v.score.v \in 1..10
                  /\ value.v.reasons.t = "array"
                  /\ value.v.riskFactors.t = "array"

\* the reply carries a content that counts as none: nothing, null, the empty
\* text, 0 or false
NoContent(reply) ==
    /\ reply.k = "json"
    /\ reply.content \in {Undefined, Null, Str(<<>>), Num(0), Bool(FALSE)}

\* the JSON texts that lack a key of the schema the handler does not look
\* for
LacksUntestedKey == {"unsure"}

\* the reply's content is JSON that lacks only a key the handler does not
\* look for
PassesUntested(reply) ==
    /\ reply.k = "json"
    /\ reply.content.t = "string"
    /\ LET payload == SelectSeq(reply.content.v, IsPayload)
       IN  Len(payload) = 1 /\ payload[1] \in LacksUntestedKey

\* the positive number x is within half a millionth of n millionths:
\* x = m * 2^e with e < 0, and twice the difference of m * 10^6 and
\* n * 2^-e is at most 2^-e
IsNearMillionths(x, n) ==
    /\ x.t = "double"
    /\ x.s = 1
    /\ x.e < 0
    /\ LET scaled == NatMul(x.m, NatOf(2000000))
           wanted == NatShl(NatOf(2 * n), -x.e)
           unit == NatShl(<<1>>, -x.e)
       IN  /\ NatCmp(NatAdd(scaled, unit), wanted) >= 0
           /\ NatCmp(scaled, NatAdd(wanted, unit)) <= 0

\* the fixed fallback: score 5, entry target 95% of the current price
\* of currentPrice cents: the target is a number that, in millionths, is
\* 0.95 * currentPrice
IsFallback(analysis, currentPrice) ==
    /\ analysis.t = "object"
    /\ analysis.v.score = Num(5)
    /\ currentPrice > 0
    /\ IsNearMillionths(analysis.v.bottomFishing.v.targetPrice, 9500 * currentPrice)

\* the 2xx replies whose content is malformed
MalformedReplies == {reply \in LLMReplies : reply.status = 200 /\ ~WellFormed(reply)}

\* slot r has just handled a reply
Replied(r) == req[r].pc = "fetch" /\ req'[r].pc = "done"

\* C5 as claimed: every 2xx reply with malformed content (empty, not JSON,
\* JSON of the wrong type, missing keys, score outside [1,10]) is answered
\* with status 200 and the fixed fallback analysis
C5_MalformedYieldsFallback ==
    [][\A r \in ReqSlots :
          Replied(r) =>
              \A reply \in MalformedReplies :
                  AIReply(r, reply) =>
                      /\ req'[r].status = 200
                      /\ IsFallback(req'[r].body.data, req[r].price)]_vars

\* what holds of a 2xx reply with malformed content: a body that cannot be
\* read as JSON is answered with 500 "Server error", a content that is
\* missing, null, the empty text, 0 or false with 500 "Empty response", and
\* neither stores anything; JSON that lacks only a key the handler does not
\* look for (confidence) is answered and stored as it is; every other
\* malformed content is answered with status 200 and the fixed fallback
\* analysis, which is also stored
C5_FallbackUnlessEmpty ==
    [][\A r \in ReqSlots :
          Replied(r) =>
              \A reply \in MalformedReplies :
                  AIReply(r, reply) =>
                      IF reply.k = "unreadable"
                      THEN /\ req'[r].status = 500
                           /\ req'[r].body = ErrorBody("Server error")
                           /\ UNCHANGED analysisCache
                      ELSE IF NoContent(reply)
                      THEN /\ req'[r].status = 500
                           /\ req'[r].body = ErrorBody("Empty response")
                           /\ UNCHANGED analysisCache
                      ELSE IF PassesUntested(reply)
                      THEN /\ req'[r].status = 200
                           /\ ~req'[r].body.cached
                           /\ req'[r].body.data.v.score = Num(8)
                           /\ req'[r].body.data.v.confidence = Undefined
                           /\ analysisCache'[req[r].symbol.v].analysis =
                                  req'[r].body.data
                      ELSE /\ req'[r].status = 200
                           /\ ~req'[r].body.cached
                           /\ IsFallback(req'[r].body.data, req[r].price)
                           /\ analysisCache'[req[r].symbol.v].analysis =
                                  req'[r].body.data]_vars

\* C5 witness: the text-generation service answered 2xx and the request was
\* answered with status 500 and the error "Empty response"; nothing is stored
C5_Witness ==
    /\ route = "ai"
    /\ analysisCache = EmptyMap
    /\ \E r \in ReqSlots :
        /\ req[r].pc = "done"
        /\ req[r].fetched = 1
        /\ req[r].status = 500
        /\ req[r].body = ErrorBody("Empty response")

\* a request was answered with status 200 and an analysis without confidence
C5_UntestedKeyWitness ==
    /\ route = "ai"
    /\ \E r \in ReqSlots :
        /\ Answered(req[r]) /\ req[r].wrote
        /\ req[r].body.data.v.confidence = Undefined

\* a request with current price 100.01 was answered with the fallback
\* analysis, entry target 95.0095
C5_FallbackWitness ==
    /\ route = "ai"
    /\ \E r \in ReqSlots :
        /\ Answered(req[r]) /\ ~req[r].hit
        /\ req[r].price = 10001
        /\ IsFallback(req[r].body.data, 10001)
        /\ req[r].body.data.v.bottomFishing.v.targetPrice = FloatOfDecimal(950095, 4)

DOWN == Str(<<"D", "O", "W", "N">>)

\* the AIAnalysis schema of the specification
SatisfiesSchema(analysis) ==
    /\ analysis.t = "object"
    /\ analysis.v.score.t = "number" /\ analysis.v.score.v \in 1..10
    /\ analysis.v.prediction \in {UP, DOWN}
    /\ analysis.v.confidence.t = "number" /\ analysis.v.confidence.v \in 1..100
    /\ analysis.v.reasons.t = "array" /\ Len(analysis.v.reasons.v) = 3
    /\ analysis.v.riskFactors.t = "array" /\ Len(analysis.v.riskFactors.v) = 3
    /\ analysis.v.bottomFishing.t = "object"
    /\ analysis.v.priceTarget.t = "object"

\* C6 as claimed: every analysis the route returns, validated, fallback or
\* cached, has score in [1,10], prediction UP or DOWN, confidence in [1,100],
\* three reasons, three risk factors, bottomFishing and priceTarget
C6_AnalysisSchema ==
    \A r \in ReqSlots :
        (route = "ai" /\ Answered(req[r])) => SatisfiesSchema(req[r].body.data)

\* C6 witness: the cache served an analysis whose prediction is HOLD
C6_Witness ==
    /\ route = "ai"
    /\ \E r \in ReqSlots :
        /\ Answered(req[r]) /\ req[r].hit
        /\ req[r].body.data.v.prediction = HOLD

SixtyMinutes == 60 * 60 * 1000

\* request r is taken up in this step with a body that asks for a refresh,
\* names a valid symbol and carries stock data taken from `quotes`
ForcedWith(r, quotes) ==
    /\ Begins(r)
    /\ req'[r].symbol # Null
    /\ \E body \in AIBodies :
        /\ body.forceRefresh
        /\ body.stockData \in quotes
        /\ AIRequest(r, body)

\* the stock data of the request bodies that hold every figure of a quote
CompleteQuotes == {QuoteOf(price) : price \in ServedPrices}

\* every analysis a completed LLM call produces, validated or fallback, is
\* stored under the symbol with the time of the store
StoresEveryAnalysis(r) ==
    (req[r].pc = "fetch" /\ Answered(req'[r])) =>
        /\ MapHas(analysisCache', req'[r].symbol.v)
        /\ analysisCache'[req'[r].symbol.v].analysis = req'[r].body.data
        /\ analysisCache'[req'[r].symbol.v].timestamp = now
        /\ req'[r].wrote

\* a request for a valid symbol without forceRefresh less than 60 minutes
\* after the store returns the stored analysis with cached = true and calls
\* no LLM
ServesStoredAnalysis(r) ==
    (/\ Begins(r) /\ req'[r].symbol # Null /\ ~req'[r].force
     /\ MapHas(analysisCache, req'[r].symbol.v)
     /\ now - analysisCache[req'[r].symbol.v].timestamp < SixtyMinutes) =>
        /\ Answered(req'[r])
        /\ req'[r].body.cached
        /\ req'[r].body.data = analysisCache[req'[r].symbol.v].analysis
        /\ req'[r].fetched = 0
        /\ UNCHANGED analysisCache

\* the request reads no cache and calls the LLM
CallsLLM(q) == q.pc = "fetch" /\ q.fetched = 1 /\ q.looked < 0 /\ ~q.hit

\* C7 as claimed: every analysis a completed LLM call produces, validated or
\* fallback, is stored under the symbol; a request without forceRefresh less
\* than 60 minutes after the store returns the stored analysis with
\* cached = true and calls no LLM; a request with forceRefresh reads no
\* cache and always calls the LLM, and its analysis replaces the entry
C7_AnalysisCaching ==
    [][\A r \in ReqSlots :
          /\ StoresEveryAnalysis(r)
          /\ ServesStoredAnalysis(r)
          /\ ForcedWith(r, CompleteQuotes \cup UnusableQuotes) => CallsLLM(req'[r])]_vars

\* C7 amended: as claimed, but a request with forceRefresh calls the LLM only
\* when its stockData holds every figure the prompt is written from; with
\* stockData that is missing, no object or incomplete it reads no cache, is
\* answered 500 "Server error" without a call of the LLM, and the entry stays
\* as it is
C7_RefreshNeedsStockData ==
    [][\A r \in ReqSlots :
          /\ StoresEveryAnalysis(r)
          /\ ServesStoredAnalysis(r)
          /\ ForcedWith(r, CompleteQuotes) => CallsLLM(req'[r])
          /\ ForcedWith(r, UnusableQuotes) =>
                /\ req'[r].pc = "done"
                /\ req'[r].status = 500
                /\ req'[r].body = ErrorBody("Server error")
                /\ req'[r].fetched = 0
                /\ req'[r].looked < 0
                /\ ~req'[r].hit
                /\ UNCHANGED analysisCache]_vars

\* C7 witness: a forced refresh stored a fallback analysis, a later request
\* without forceRefresh was served it from the cache, and the entry is
\* still that one
C7_Witness ==
    /\ route = "ai"
    /\ \E r \in ReqSlots, s \in ReqSlots :
        /\ Answered(req[s]) /\ req[s].force /\ req[s].wrote
        /\ IsFallback(req[s].body.data, req[s].price)
        /\ Answered(req[r]) /\ req[r].hit /\ ~req[r].force
        /\ req[r].body.cached
        /\ req[r].body.data = req[s].body.data
        /\ req[r].looked > req[s].storedAt

\* a forced refresh without usable stockData was answered 500 with no call
\* of the LLM while the cache held an analysis for its symbol
C7_NoCallWitness ==
    /\ route = "ai"
    /\ \E r \in ReqSlots :
        /\ req[r].pc = "done" /\ req[r].force
        /\ req[r].symbol # Null
        /\ req[r].status = 500
        /\ req[r].body = ErrorBody("Server error")
        /\ req[r].fetched = 0
        /\ MapHas(analysisCache, req[r].symbol.v)

\* the stages in the order of the specification, and in the order of the code
SpecOrder == <<"validate", "ratelimit", "cache", "fetch", "store", "respond">>

CodeOrder == <<"ratelimit", "validate", "cache", "fetch", "store", "respond">>

RECURSIVE InOrder(_, _)
\* the stages of tr occur in the order of `order`
InOrder(tr, order) ==
    IF tr = <<>> THEN TRUE
    ELSE IF order = <<>> THEN FALSE
    ELSE IF Head(tr) = Head(order) THEN InOrder(Tail(tr), Tail(order))
    ELSE InOrder(tr, Tail(order))

Contains(tr, stage) == \E i \in 1..Len(tr) : tr[i] = stage

\* C9 as claimed: a request passes the Validator, then the Rate Limiter, then
\* the cache lookup, the fetch, the store and the response, so a request
\* rejected for its symbol has not been through the limiter
C9_ValidatorFirst ==
    \A r \in Slots :
        /\ InOrder(req[r].trace, SpecOrder)
        /\ (req[r].pc = "done" /\ req[r].status = 400) =>
               ~Contains(req[r].trace, "ratelimit")

\* C9 amended: a request passes the Rate Limiter, then the Validator, then
\* (news) the cache lookup, the fetch, (news) the store and the response; the
\* limiter counts the request before its symbol is looked at, and a request
\* rejected with 400 for its symbol keeps the admission it consumed
C9_LimiterFirst ==
    [][\A r \in Slots :
          LET q == req'[r]
          IN  /\ InOrder(q.trace, CodeOrder)
              /\ q.trace # <<>> => q.trace[1] = "ratelimit"
              /\ (Begins(r) /\ ~RateLimited(q)) =>
                    /\ q.trace = <<"ratelimit">>
                    /\ rateLimitMap'[q.ip].count =
                          IF MapHas(rateLimitMap, q.ip)
                             /\ now <= rateLimitMap[q.ip].resetTime
                          THEN rateLimitMap[q.ip].count + 1
                          ELSE 1
              /\ (req[r].pc = "params" /\ q.pc = "done" /\ q.status = 400) =>
                    /\ q.trace = <<"ratelimit", "validate", "respond">>
                    /\ rateLimitMap[q.ip].count >= 1
                    /\ UNCHANGED rateLimitMap]_vars

\* C9 witness: a request with an invalid symbol took the last admission of
\* its client's window and was then rejected with 400
C9_Witness ==
    \E r \in Slots :
        /\ req[r].pc = "done" /\ req[r].status = 400
        /\ req[r].trace = <<"ratelimit", "validate", "respond">>
        /\ rateLimitMap[req[r].ip].count = RATE_LIMIT

\* the raw symbol has no valid form: not a string, or nothing or more than
\* ten characters left of it
InvalidRaw(raw) == raw.t # "string" \/ Len(Sanitized(raw.v)) \notin 1..10

\* C10 as claimed: on the quote, news, indicators and AI routes a request
\* whose symbol fails validation is answered with 400, causes no upstream
\* request and writes no cache
C10_InvalidSymbolIs400 ==
    \A r \in Slots :
        (req[r].pc = "done" /\ InvalidRaw(req[r].raw)) =>
            /\ req[r].status = 400
            /\ req[r].fetched = 0
            /\ ~req[r].wrote

\* C10 amended: a request whose symbol fails validation never causes an
\* upstream request and never writes a cache; it is answered with 400, unless
\* the limiter of the quote or news route rejects it first (429), or the AI
\* route finds no API key or no readable body first (500)
C10_InvalidSymbolStaysLocal ==
    [][\A r \in Slots :
          LET q == req'[r]
          IN  (q # req[r] /\ q.pc # "idle" /\ InvalidRaw(q.raw)) =>
                /\ q.fetched = 0
                /\ ~q.wrote
                /\ q.pc # "fetch"
                /\ UNCHANGED caches
                /\ q.pc = "done" =>
                      \/ q.status = 400 /\ q.body = ErrorBody("Invalid symbol")
                      \/ RateLimited(q) /\ route \in {"quote", "news"}
                      \/ /\ q.status = 500 /\ route = "ai"
                         /\ q.trace = <<"respond">>]_vars

\* C10 witness: the AI route rejected "$$$" with 400 under forceRefresh
C10_Witness ==
    /\ route = "ai"
    /\ \E r \in Slots :
        /\ req[r].pc = "done" /\ req[r].status = 400
        /\ req[r].raw = Str(<<"$", "$", "$">>)
        /\ req[r].force
        /\ req[r].fetched = 0

\* the label the specification gives an RSI value (in hundredths), by ranges
\* that do not overlap
SignalRanges(v) ==
    {<<"Overbought", v >= 7000>>,
     <<"Bullish", v >= 6000 /\ v < 7000>>,
     <<"Oversold", v <= 3000>>,
     <<"Bearish", v > 3000 /\ v <= 4000>>,
     <<"Neutral", v > 4000 /\ v < 6000>>}

\* C16: the RSI signal is a total step function of the value: >= 70
\* Overbought, else >= 60 Bullish, else <= 30 Oversold, else <= 40 Bearish,
\* else Neutral; exactly one label applies to every value, the boundaries 70,
\* 60, 30, 40 belong to Overbought, Bullish, Oversold, Bearish, and
\* getRSISignal and the classification inside fetchRSI agree on every value
C16_SignalClassification ==
    (route = "getRSISignal" /\ ret.t # "pending") =>
        /\ Cardinality({p \in SignalRanges(arg) : p[2]}) = 1
        /\ <<ret.endpoint, TRUE>> \in SignalRanges(arg)
        /\ ret.enrichment = ret.endpoint
        /\ arg = 7000 => ret.endpoint = "Overbought"
        /\ arg = 6000 => ret.endpoint = "Bullish"
        /\ arg = 3000 => ret.endpoint = "Oversold"
        /\ arg = 4000 => ret.endpoint = "Bearish"

\* C16 witness: the value 70.00 was classified Overbought by both
C16_Witness ==
    /\ route = "getRSISignal"
    /\ arg = 7000
    /\ ret.t # "pending"
    /\ ret.endpoint = "Overbought"
    /\ ret.enrichment = "Overbought"

\* the series never falls from one close to the next
IsRising(closePrices) ==
    \A i \in 1..(Len(closePrices) - 1) : closePrices[i + 1] >= closePrices[i]

\* C17: for every monotonically increasing series of at least 15 closes
\* calculateRSI returns exactly 100, classified Overbought, and so it does
\* after the seed mean and after each further smoothing step (every prefix
\* of at least 15 closes)
C17_RisingSeriesIs100 ==
    (route = "calculateRSI" /\ ret.t # "pending"
     /\ Len(arg) >= RSI_PERIOD + 1 /\ IsRising(arg)) =>
        /\ ret.t = "number"
        /\ ret.v = 10000
        /\ ret.signal = "Overbought"
        /\ \A n \in (RSI_PERIOD + 1)..Len(arg) :
              calculateRSI(SubSeq(arg, 1, n)) = [t |-> "number", v |-> 10000]

\* C17 witness: a strictly rising series of 17 closes, two smoothing steps
\* after the seed, came out at 100
C17_Witness ==
    /\ route = "calculateRSI"
    /\ Len(arg) = 17
    /\ \A i \in 1..16 : arg[i + 1] > arg[i]
    /\ ret.t # "pending"
    /\ ret.v = 10000

\* every price of the series is the same
IsConstant(prices) == \A i \in 1..Len(prices) : prices[i] = prices[1]

\* C18 as claimed: calculateSharpeRatio returns 0, a finite number, for every
\* series of fewer than two prices and for every constant series of two
\* prices or more, and the trend derived from it is neutral
C18_DegenerateSharpeIsZero ==
    (route = "calculateSharpeRatio" /\ ret.t # "pending"
     /\ (Len(arg) < 2 \/ IsConstant(arg))) =>
        /\ ret.ratio = Num(0)
        /\ ret.trend = "neutral"

\* the same for the series whose prices are not zero
C18_ZeroForNonzeroPrices ==
    (route = "calculateSharpeRatio" /\ ret.t # "pending"
     /\ (Len(arg) < 2 \/ (IsConstant(arg) /\ arg[1] # 0))) =>
        /\ ret.ratio = Num(0)
        /\ ret.trend = "neutral"

\* C18 witness: the constant series 0, 0 came out as NaN
C18_Witness ==
    /\ route = "calculateSharpeRatio"
    /\ arg = <<0, 0>>
    /\ ret.t = "ratio"
    /\ ret.ratio = NaN
    /\ ret.trend = "neutral"

\* the ratio is above 0.5: a count of hundredths above 50, a number too
\* large to be given as a count of hundredths, or infinity
IsAboveHalf(ratio) ==
    \/ ratio.t = "number" /\ ratio.v > 50
    \/ ratio.t = "double" /\ ratio.s > 0
    \/ ratio = Infinite

\* the ratio is below 0
IsBelowZero(ratio) ==
    \/ ratio.t = "number" /\ ratio.v < 0
    \/ ratio.t = "double" /\ ratio.s < 0
    \/ ratio = NegInfinite

\* C19: determineTrend is total; it answers bullish exactly for a ratio above
\* 0.5, bearish exactly for a ratio below 0 and neutral for everything else,
\* so that 0.5 and 0 are neutral and no ratio has two answers
C19_TrendClassification ==
    (route = "determineTrend" /\ ret.t # "pending") =>
        /\ ret.v \in {"bullish", "bearish", "neutral"}
        /\ ret.v = "bullish" <=> IsAboveHalf(arg)
        /\ ret.v = "bearish" <=> IsBelowZero(arg)
        /\ ret.v = "neutral" <=> ~(IsAboveHalf(arg) \/ IsBelowZero(arg))
        /\ arg = [t |-> "number", v |-> 50] => ret.v = "neutral"
        /\ arg = [t |-> "number", v |-> 0] => ret.v = "neutral"

\* C19 witness: the ratio 0.5 was classified neutral
C19_Witness ==
    /\ route = "determineTrend"
    /\ arg = [t |-> "number", v |-> 50]
    /\ ret.t # "pending"
    /\ ret.v = "neutral"

\* the sentiment the specification gives a label
NormalizedLabel(label) ==
    LET lower == ToLowerCase(label)
        has(words) == \E w \in words : Includes(lower, w)
    IN  CASE has({Bullish, Positive}) -> "Bullish"
          [] ~has({Bullish, Positive}) /\ has({Bearish, Negative}) -> "Bearish"
          [] OTHER -> "Neutral"

\* C20 as claimed: the news endpoint and the news enrichment of the AI path
\* both map a label that contains "bullish" or "positive", in any case, to
\* Bullish, otherwise one that contains "bearish" or "negative" to Bearish,
\* and every other label to Neutral
C20_LabelMapping ==
    (route = "mapSentiment" /\ ret.t # "pending") =>
        /\ ret.news = NormalizedLabel(arg)
        /\ ret.enrichment = NormalizedLabel(arg)

\* the same for the news endpoint alone
C20_NewsLabelMapping ==
    (route = "mapSentiment" /\ ret.t # "pending") => ret.news = NormalizedLabel(arg)

\* C20 witness: the label "Positive" is Bullish for the news endpoint and
\* Neutral for the enrichment
C20_Witness ==
    /\ route = "mapSentiment"
    /\ arg = Capitalized(Positive)
    /\ ret.t # "pending"
    /\ ret.news = "Bullish"
    /\ ret.enrichment = "Neutral"

\* the absolute value
Abs(x) == IF x < 0 THEN -x ELSE x

\* the unrounded current price of the quote built from an input
ExactCurrentPrice(input) ==
    IF input.t = "demo" THEN input.prices[5]
    ELSE CurrentPriceOf(input.result.meta, ClosesOf(input.result.bars))

\* the unrounded previous close of the quote built from an input
ExactPreviousClose(input) ==
    IF input.t = "demo" THEN input.prices[4]
    ELSE PreviousCloseOf(input.result.meta, ClosesOf(input.result.bars))

\* cents is x thousandths rounded to a nearest hundredth: the engine's
\* arithmetic sends a quantity halfway between two hundredths to either
IsRounded(cents, x) == 10 * cents - 5 <= x /\ x <= 10 * cents + 5

\* C15 as claimed: on the returned fields of every quote, real or demo,
\* change is currentPrice - previousClose and changePercent is
\* change / previousClose * 100, each to within 0.01, and trend is
\* determineTrend(sharpeRatio)
C15_FieldRelations ==
    (route = "stockData" /\ ret.t # "pending") =>
        LET f == ret.v.figures
        IN  /\ Abs(f.change - (f.currentPrice - f.previousClose)) <= 1
            /\ f.previousClose # 0
            /\ f.changePercent.t = "number"
            /\ Abs(f.changePercent.v * f.previousClose - 10000 * f.change)
                   <= f.previousClose
            /\ f.trend = determineTrend(f.sharpeRatio)

\* C15 amended: the relations hold between the unrounded prices, of which
\* each returned field is the rounding to two decimals (changePercent is NaN
\* when the previous close is 0); on the returned fields change is within
\* 0.01 of currentPrice - previousClose, and trend is determineTrend(sharpeRatio)
C15_RoundedFigures ==
    (route = "stockData" /\ ret.t # "pending") =>
        LET f == ret.v.figures
            c == ExactCurrentPrice(arg)
            p == ExactPreviousClose(arg)
        IN  /\ IsRounded(f.currentPrice, c)
            /\ IsRounded(f.previousClose, p)
            /\ IsRounded(f.change, c - p)
            /\ IF p = 0 THEN f.changePercent.t = "nan"
               ELSE /\ f.changePercent.t = "number"
                    /\ Abs(f.changePercent.v * p - 10000 * (c - p)) <= p \div 2
            /\ Abs(f.change - (f.currentPrice - f.previousClose)) <= 1
            /\ f.trend = determineTrend(f.sharpeRatio)

\* C15 witness: a quote of 0.013 after a close of 0.007 is returned with both
\* prices 0.01, a change of 0.01 and a changePercent of 85.71
C15_Witness ==
    /\ route = "stockData"
    /\ ret.t # "pending"
    /\ arg.t = "chart"
    /\ ExactCurrentPrice(arg) = 13
    /\ ExactPreviousClose(arg) = 7
    /\ ret.v.figures.currentPrice = 1
    /\ ret.v.figures.previousClose = 1
    /\ ret.v.figures.change = 1
    /\ ret.v.figures.changePercent = Num(8571)

\* the name of the quote carries the demo mark
IsDemo(quote) ==
    /\ Len(quote.name) >= Len(DemoMark)
    /\ SubSeq(quote.name, Len(quote.name) - Len(DemoMark) + 1, Len(quote.name)) = DemoMark

\* the body is a chart whose first result has a meta block and a bar with
\* its four prices
IsValidChart(body) ==
    /\ body.t = "object"
    /\ body.chart.t = "object"
    /\ body.chart.result.t = "array"
    /\ body.chart.result.items # <<>>
    /\ LET first == body.chart.result.items[1]
       IN  /\ first.meta.t = "object"
           /\ \E i \in 1..Len(first.bars) :
                  {first.bars[i].open.t, first.bars[i].high.t,
                   first.bars[i].low.t, first.bars[i].close.t} = {"number"}

\* the chart request succeeded with a valid chart
IsSuccess(upstream) ==
    /\ upstream.t = "response"
    /\ upstream.ok
    /\ upstream.body.t # "unparsable"
    /\ IsValidChart(upstream.body)

\* C12: the quote endpoint answers with demo data exactly when the chart
\* request was rejected, was answered with a non-2xx status, or its body
\* could not be parsed or failed the validation of its shape (a chart without
\* a complete bar included); a successful valid chart is answered with the
\* provider's name and symbol, and every demo quote carries the mark
\* "(Demo)" in its name, which no real quote does
C12_DemoOnlyAsFallback ==
    \A r \in QuoteSlots :
        (route = "quote" /\ req[r].pc = "done" /\ req[r].body.kind = "quote") =>
            LET quote == req[r].body.data
                upstream == req[r].upstream
            IN  /\ IsDemo(quote) <=> ~IsSuccess(upstream)
                /\ IsSuccess(upstream) =>
                       /\ quote.symbol = req[r].symbol.v
                       /\ quote.name \in {AppleName, req[r].symbol.v}

\* C12 witness: a rejected chart request was answered with demo data for AAPL
C12_Witness ==
    \E r \in QuoteSlots :
        /\ route = "quote"
        /\ req[r].pc = "done"
        /\ req[r].body.kind = "quote"
        /\ req[r].upstream.t = "reject"
        /\ req[r].body.data.name = <<"A", "A", "P", "L">> \o DemoMark

\* a successful valid chart was answered with the real quote
C12_RealWitness ==
    \E r \in QuoteSlots :
        /\ route = "quote"
        /\ req[r].pc = "done"
        /\ req[r].body.kind = "quote"
        /\ IsSuccess(req[r].upstream)
        /\ req[r].body.data.name = AppleName

\* the time to live the specification gives the data class of a source:
\* indicators 5 minutes, news at most 10, fundamentals 60
ClassTTL(source) ==
    CASE source \in {"rsi", "macd"} -> 5 * 60 * 1000
      [] source = "news" -> 10 * 60 * 1000
      [] source = "overview" -> 60 * 60 * 1000

\* the age of the entry a request of the enriched route is given for a
\* source as it arrives, when it is answered from the cache
ServedAge(r, source) ==
    now - alphaVantageCache[CacheKey(source, req'[r].symbol.v)].timestamp

\* the request arrives and the source is answered from the cache
IsServedFromCache(r, source) ==
    /\ route = "enhanced"
    /\ req[r].pc = "idle"
    /\ req'[r].pc # "idle"
    /\ req'[r].sources[source].state = "hit"

\* C13 as claimed: no cache of the program serves a value older than the
\* time to live of its data class: a hit of the news, indicators, market or
\* analysis cache is younger than the TTL of the route, and a source of the
\* AI path is answered from the enrichment cache only by an entry younger
\* than 5 minutes for RSI and MACD, 10 for news and 60 for fundamentals
C13_NoStaleValueServed ==
    [][\A r \in ReqSlots :
          /\ ServesOnlyFresh(r)
          /\ \A source \in SourceNames :
                 IsServedFromCache(r, source) => ServedAge(r, source) < ClassTTL(source)]_vars

\* what holds instead: an entry of the enrichment cache is served while it
\* is younger than the maxAge its source passes, 15 minutes for RSI, MACD
\* and news
C13_WithinMaxAge ==
    [][\A r \in ReqSlots :
          /\ ServesOnlyFresh(r)
          /\ \A source \in SourceNames :
                 IsServedFromCache(r, source) => ServedAge(r, source) < MaxAgeOf(source)]_vars

\* C13 witness: a request of the enriched route was given an RSI fetched 10
\* minutes before it arrived
C13_Witness ==
    /\ route = "enhanced"
    /\ \E r \in EnrichSlots :
        /\ req[r].pc # "idle"
        /\ req[r].sources["rsi"].state = "hit"
        /\ req[r].began - req[r].sources["rsi"].value.v[2] = 10 * 60 * 1000

\* the source gave the request a value: from the cache, or from the provider
Succeeded(src) == src.state = "hit" \/ (src.state = "settled" /\ src.outcome = "data")

\* the request has the value of exactly the sources that succeeded
HasExactlySucceeded(q) ==
    \A s \in SourceNames : q.sources[s].value.t # "null" <=> Succeeded(q.sources[s])

\* C14: the sources the cache does not answer are all in flight at once and
\* each of them can settle whatever the others did; a source that settles,
\* with data or with a failure of any kind, leaves the results of the others
\* as they are and never ends the request; once all have settled the request
\* goes on to the text-generation service with the values of exactly the
\* sources that succeeded and null for the others, and its answer reports
\* exactly those
C14_PartialSuccess ==
    /\ [](\A r \in EnrichSlots :
            (route = "enhanced" /\ req[r].pc = "enrich") =>
                \A s \in SourceNames :
                    /\ req[r].sources[s].state \in {"hit", "pending", "settled"}
                    /\ req[r].sources[s].state = "pending" =>
                           \A o \in SourceOutcomes : ENABLED SourceSettles(r, s, o))
    /\ [][\A r \in EnrichSlots :
            (route = "enhanced" /\ req[r].pc = "enrich") =>
                /\ \A s \in SourceNames :
                       req[r].sources[s].state # "pending" =>
                           req'[r].sources[s] = req[r].sources[s]
                /\ req[r].price # NoPrice => req'[r].pc \in {"enrich", "fetch"}
                /\ req'[r].pc = "fetch" =>
                       AllSettled(req'[r].sources) /\ HasExactlySucceeded(req'[r])]_vars
    /\ [](\A r \in EnrichSlots :
            (/\ route = "enhanced" /\ req[r].pc = "done" /\ req[r].status = 200
             /\ ~req[r].body.cached) =>
                /\ HasExactlySucceeded(req[r])
                /\ req[r].body.enhancedData =
                       [hasRSI |-> Succeeded(req[r].sources["rsi"]),
                        hasMACD |-> Succeeded(req[r].sources["macd"]),
                        hasFundamentals |-> Succeeded(req[r].sources["overview"]),
                        hasNews |-> Succeeded(req[r].sources["news"])])

\* C14 witness: the MACD request was rejected and the news request met the
\* call limit; the analysis was made with the RSI and the fundamentals
C14_Witness ==
    /\ route = "enhanced"
    /\ \E r \in EnrichSlots :
        /\ req[r].pc = "done"
        /\ req[r].status = 200
        /\ ~req[r].body.cached
        /\ req[r].sources["rsi"].outcome = "data"
        /\ req[r].sources["macd"].outcome = "reject"
        /\ req[r].sources["overview"].outcome = "data"
        /\ req[r].sources["news"].outcome = "note"
        /\ req[r].body.enhancedData =
               [hasRSI |-> TRUE, hasMACD |-> FALSE,
                hasFundamentals |-> TRUE, hasNews |-> FALSE]

(***************************************************************************)
(* Every endpoint, with the promise each request waits for settling in     *)
(* the end.                                                                *)
(***************************************************************************)
InitEvery ==
    \/ InitQuote
    \/ InitNews
    \/ InitIndicators
    \/ InitMarket
    \/ InitExchange
    \/ InitAI
    \/ InitEnhanced

\* the provider's answers to the quote route that are followed here: each
\* kind of failure, and the valid charts
FollowedResponses ==
    {response \in QuoteResponses :
        \/ response.t = "reject"
        \/ ~response.ok
        \/ response.body \in {Unparsable, Null}
        \/ validateYahooResponse(response.body)}

\* the outcomes of a source that are followed here
FollowedOutcomes == {"data", "reject", "non-json"}

\* the handler of the request in slot r resumes: params resolves, or an
\* upstream request settles one way or another
Resumes(r) ==
    \/ QuoteValidate(r)
    \/ \E response \in FollowedResponses, draw \in ServedDraws :
           QuoteReply(r, response, draw)
    \/ NewsLookup(r)
    \/ \E o \in NewsOutcomes : NewsReply(r, o)
    \/ \E o \in IndicatorOutcomes : IndicatorsReply(r, o)
    \/ \E o \in MarketOutcomes : MarketReply(r, o)
    \/ \E response \in ExchangeResponses : ExchangeReply(r, response)
    \/ \E reply \in LLMReplies : AIReply(r, reply)
    \/ \E i \in DOMAIN Sources, o \in FollowedOutcomes : SourceSettles(r, Sources[i], o)
    \/ \E reply \in EnhancedReplies : EnhancedReply(r, reply)

\* a request arrives
Arrives ==
    \/ \E r \in QuoteSlots, raw \in RawSymbols : QuoteBegin(r, Proxied, raw)
    \/ \E r \in ReqSlots, raw \in RawSymbols : NewsBegin(r, Proxied, raw)
    \/ \E r \in ReqSlots, raw \in RawSymbols : IndicatorsLookup(r, raw)
    \/ \E r \in ReqSlots : MarketLookup(r)
    \/ \E r \in ReqSlots : ExchangeRequest(r)
    \/ \E r \in ReqSlots, body \in AIBodies : AIRequest(r, body)
    \/ \E r \in EnrichSlots, body \in EnhancedBodies : EnhancedRequest(r, body)

NextEvery ==
    \/ Arrives
    \/ \E r \in Slots : Resumes(r)
    \/ \E r \in QuoteSlots : Finish(r)
    \/ \E r \in EnrichSlots : EnhancedFinish(r)
    \/ Advance

SpecEvery == InitEvery /\ [][NextEvery]_vars /\ \A r \in Slots : WF_vars(Resumes(r))

\* the successful results of the routes
ResultKinds == {"quote", "news", "indicators", "market", "rate", "analysis"}

\* the response is a result of the route with status 200, or the body
\* {error, message} with a status outside 200..299
IsDocumented(q) ==
    \/ q.status = 200 /\ q.body.kind \in ResultKinds
    \/ q.status \in 400..599 /\ q.body.kind = "error"

\* the upstream request of the quote or exchange route failed
UpstreamFailed(q) ==
    \/ q.upstream.t = "reject"
    \/ q.upstream.t = "response" /\ ~q.upstream.ok
    \/ q.upstream.t = "response" /\ q.upstream.body.t = "unparsable"

\* C11: every request to every endpoint is answered: the answer is a result
\* of the route with status 200 or the body {error, message} with a non-2xx
\* status; a failed upstream request of the quote route ends in demo data
\* and one of the exchange route in the fallback rate; and every request
\* that has arrived is answered in the end
C11_AlwaysAnswered ==
    /\ [](\A r \in Slots :
            req[r].pc = "done" =>
                /\ IsDocumented(req[r])
                /\ (route = "quote" /\ UpstreamFailed(req[r])) =>
                       req[r].status = 200 /\ IsDemo(req[r].body.data)
                /\ (route = "exchange" /\ UpstreamFailed(req[r])) =>
                       /\ req[r].status = 200
                       /\ req[r].body.data.v.rate = FALLBACK_RATE)
    /\ \A r \in Slots : (req[r].pc # "idle") ~> (req[r].pc = "done")

\* C11 witness: the news provider answered 503 and the request was answered
\* with the error body and that status
C11_Witness ==
    /\ route = "news"
    /\ \E r \in ReqSlots :
        /\ req[r].pc = "done"
        /\ req[r].status = 503
        /\ req[r].body.kind = "error"

\* the body of the provider holds a positive numeric rates.THB
HasPositiveTHB(body) ==
    /\ body.t = "object"
    /\ body.rates.t = "object"
    /\ body.rates.THB.t = "number"
    /\ body.rates.THB.v >= 1

\* the provider was unreachable, answered non-2xx, or answered a body without
\* a positive numeric rates.THB
NoRate(response) ==
    \/ response.t = "reject"
    \/ ~response.ok
    \/ ~HasPositiveTHB(response.body)

NoProviderRate(q) == NoRate(q.upstream)

\* rate, in 1e-4, is thb, in 1e-5, rounded to 4 decimals: no count of 1e-4
\* is nearer to thb
IsRoundedRate(rate, thb) == 10 * rate - 5 <= thb /\ thb <= 10 * rate + 5

\* the values of time_last_updated among the provider's that are given and
\* stand for no date: a text that is no number, and 10^13 seconds, which is
\* beyond the last date
NoDateTimes == {Soon, TooLate}

\* the rate of the answer of request q
RateOf(q) == q.body.data.v.rate

\* C21 as claimed: the exchange-rate endpoint always answers status 200 with
\* a {rate, lastUpdated} body; when the provider is unreachable, answers
\* non-2xx, or answers a body without a positive numeric rates.THB, rate is
\* the fallback 33.5; otherwise rate is the provider's THB rate rounded to 4
\* decimals
C21_FallbackOrProviderRate ==
    \A r \in ReqSlots :
        (route = "exchange" /\ req[r].pc = "done") =>
            /\ req[r].status = 200
            /\ req[r].body.kind = "rate"
            /\ req[r].body.data.t = "object"
            /\ ~req[r].hit =>
                IF NoProviderRate(req[r])
                THEN RateOf(req[r]) = FALLBACK_RATE
                ELSE IsRoundedRate(RateOf(req[r]), req[r].upstream.body.rates.THB.v)

\* what holds of the exchange-rate endpoint: the answer is always status 200
\* with a {rate, lastUpdated} body; rate is the fallback 33.5 whenever the
\* provider gave no positive rate; and it is the provider's THB rate rounded
\* to 4 decimals when the body's time_last_updated is missing, 0, or a number
\* or numeric text within the range of dates
C21_RateUnlessNoDate ==
    \A r \in ReqSlots :
        (route = "exchange" /\ req[r].pc = "done") =>
            /\ req[r].status = 200
            /\ req[r].body.kind = "rate"
            /\ req[r].body.data.t = "object"
            /\ ~req[r].hit =>
                IF NoProviderRate(req[r])
                THEN RateOf(req[r]) = FALLBACK_RATE
                ELSE IF req[r].upstream.body.time_last_updated \notin NoDateTimes
                THEN IsRoundedRate(RateOf(req[r]), req[r].upstream.body.rates.THB.v)
                ELSE RateOf(req[r]) = FALLBACK_RATE

\* C21 witness: the provider answered 36.12344 THB with a time_last_updated
\* that is no date, and the request was answered with the rate 33.5
C21_Witness ==
    /\ route = "exchange"
    /\ \E r \in ReqSlots :
        /\ req[r].pc = "done"
        /\ ~req[r].hit
        /\ req[r].upstream = Response(TRUE, RatesBody(Num(3612344), Soon))
        /\ RateOf(req[r]) = FALLBACK_RATE

\* the provider answered 33.5 THB with the time "7", a numeric text, and the
\* request was answered 33.5 as of 7000 ms
C21_TextTimeWitness ==
    /\ route = "exchange"
    /\ \E r \in ReqSlots :
        /\ req[r].pc = "done"
        /\ req[r].wrote
        /\ req[r].upstream = Response(TRUE, RatesBody(Num(3350000), Str(<<"7">>)))
        /\ req[r].body.data.v.lastUpdated = 7000

\* the provider answered 33.00055 THB and the request was answered 33.0005:
\* the product with 10000 is a number below 330005.5
C21_TieWitness ==
    /\ route = "exchange"
    /\ \E r \in ReqSlots :
        /\ req[r].pc = "done"
        /\ req[r].wrote
        /\ req[r].upstream = Response(TRUE, RatesBody(Num(3300055), Num(0)))
        /\ RateOf(req[r]) = 330005

\* the provider answered 34.75996 THB and the request was answered 34.76
C21_RateWitness ==
    /\ route = "exchange"
    /\ \E r \in ReqSlots :
        /\ req[r].pc = "done"
        /\ ~req[r].hit
        /\ req[r].upstream = Response(TRUE, RatesBody(Num(3475996), Num(7)))
        /\ RateOf(req[r]) = 347600
        /\ req[r].body.data.v.lastUpdated = 7000

\* the score is a number of [-1, 1]
IsWithinUnit(score) ==
    /\ score.t = "double"
    /\ FloatCmp(score, FloatOf(-1)) >= 0
    /\ FloatCmp(score, FloatOf(1)) <= 0

\* C22 as claimed: every NewsItem the news endpoint returns has a sentiment
\* among Bullish, Bearish and Neutral and a numeric sentimentScore within
\* [-1, 1], whatever score texts the provider's feed entry holds
C22_ScoreWithinUnit ==
    (route = "newsItems" /\ ret.t = "items") =>
        \A i \in 1..Len(ret.v) :
            /\ ret.v[i].sentiment \in {"Bullish", "Bearish", "Neutral"}
            /\ IsWithinUnit(ret.v[i].sentimentScore)

\* the score text the item is built from
ChosenScore(entry) ==
    IF entry.relevance = "high" /\ entry.ticker_sentiment_score \notin {Undefined, Str(<<>>)}
    THEN entry.ticker_sentiment_score
    ELSE entry.overall_sentiment_score

\* what holds of every NewsItem: its sentiment is among Bullish, Bearish and
\* Neutral; its sentimentScore is a number or null; it is 0 when the entry
\* holds no score text; and the score 0.25 passes through unchanged
C22_SentimentAndScore ==
    (route = "newsItems" /\ ret.t = "items") =>
        \A i \in 1..Len(ret.v) :
            /\ ret.v[i].sentiment \in {"Bullish", "Bearish", "Neutral"}
            /\ ret.v[i].sentimentScore.t \in {"double", "null"}
            /\ ChosenScore(arg) \in {Undefined, Str(<<>>)} =>
                   ret.v[i].sentimentScore = FloatZero
            /\ ChosenScore(arg) = Str(<<"0", ".", "2", "5">>) =>
                   ret.v[i].sentimentScore = FloatDiv(FloatOf(1), FloatOf(4))

\* C22 witness: an entry whose ticker_sentiment_score for the symbol is 1.5
\* became an item with the sentimentScore 1.5
C22_Witness ==
    /\ route = "newsItems"
    /\ ret.t = "items"
    /\ arg.relevance = "high"
    /\ arg.ticker_sentiment_score = Str(<<"1", ".", "5">>)
    /\ Len(ret.v) = 1
    /\ ret.v[1].sentimentScore = FloatDiv(FloatOf(3), FloatOf(2))

\* an entry whose only score text is N/A became an item with the
\* sentimentScore null
C22_NullWitness ==
    /\ route = "newsItems"
    /\ ret.t = "items"
    /\ arg.relevance = "none"
    /\ arg.overall_sentiment_score = Str(<<"N", "/", "A">>)
    /\ Len(ret.v) = 1
    /\ ret.v[1].sentimentScore = Null
    /\ ret.v[1].sentiment = "Bearish"

\* C24: every entry of the rate-limit table has 1 <= count <= RATE_LIMIT; a
\* rejected request leaves the table unchanged, count and resetTime alike; a
\* request of one client identifier never changes the entry of another; and
\* nothing but the arrival of a request changes the table
C24_TableEntries ==
    /\ [](\A ip \in DOMAIN rateLimitMap : rateLimitMap[ip].count \in 1..RATE_LIMIT)
    /\ [][/\ \A r \in ReqSlots :
                Begins(r) =>
                    /\ RateLimited(req'[r]) => rateLimitMap' = rateLimitMap
                    /\ \A ip \in DOMAIN rateLimitMap \ {req'[r].ip} :
                           /\ MapHas(rateLimitMap', ip)
                           /\ rateLimitMap'[ip] = rateLimitMap[ip]
          /\ (\A r \in ReqSlots : ~Begins(r)) => rateLimitMap' = rateLimitMap]_vars

\* C24 witness: a request of the client at 10.0.0.1 was rejected while the
\* table holds that client's entry at RATE_LIMIT and the entries of two other
\* clients
C24_Witness ==
    /\ route = "news"
    /\ \E r \in ReqSlots :
        /\ RateLimited(req[r])
        /\ req[r].ip = "10.0.0.1"
        /\ rateLimitMap["10.0.0.1"] = [count |-> RATE_LIMIT, resetTime |-> RATE_WINDOW]
    /\ DOMAIN rateLimitMap = {"10.0.0.1", "10.0.0.7", "unknown"}
    /\ rateLimitMap["unknown"].count = 1

\* request r alone moved in the step
OnlyMoves(r) == \A s \in ReqSlots \ {r} : req'[s] = req[s]

\* a request is at an await point
InFlight(q) == q.pc \in {"params", "fetch"}

\* C23: however concurrent requests interleave at their await points, the
\* read-check-write of checkRateLimit is one step of one request on the
\* table as it stands, so the requests of a client get no more than
\* RATE_LIMIT admissions in one window; and every cache entry is a complete
\* {data, timestamp} pair written in one step by one request, which is what
\* a later hit is answered with
C23_AtomicPerKey ==
    /\ [](\A ip \in DOMAIN window : window[ip].admits <= RATE_LIMIT)
    /\ [](\A k \in DOMAIN newsCache :
            /\ DOMAIN newsCache[k] = {"data", "timestamp"}
            /\ newsCache[k].timestamp <= now)
    /\ [][/\ \A r \in ReqSlots :
                Begins(r) =>
                    /\ OnlyMoves(r)
                    /\ rateLimitMap' = checkRateLimit(rateLimitMap, req'[r].ip, now).map
                    /\ ~RateLimited(req'[r]) <=>
                           checkRateLimit(rateLimitMap, req'[r].ip, now).allowed
          /\ rateLimitMap' # rateLimitMap => \E r \in ReqSlots : Begins(r)
          /\ newsCache' # newsCache =>
                \E r \in ReqSlots :
                    /\ OnlyMoves(r)
                    /\ req[r].pc = "fetch" /\ req'[r].pc = "done"
                    /\ \E items \in {MappedItems(f) : f \in Feeds} :
                        /\ newsCache' = MapSet(newsCache, req[r].symbol.v,
                                               [data |-> items, timestamp |-> now])
                        /\ req'[r].body.data = JsonItems(items)
          /\ \A r \in ReqSlots :
                (req'[r].hit /\ ~req[r].hit) =>
                    req'[r].body.data = JsonItems(newsCache[req'[r].symbol.v].data)]_vars

\* C23 witness: while a request of the client is at an await point with the
\* client's count at RATE_LIMIT, another request of the same client was
\* rejected
C23_Witness ==
    /\ route = "news"
    /\ \E r \in ReqSlots, s \in ReqSlots :
        /\ InFlight(req[r])
        /\ RateLimited(req[s])
        /\ req[r].ip = req[s].ip
        /\ rateLimitMap[req[r].ip].count = RATE_LIMIT

\* two requests were at their await points together and the one that asked
\* later was answered from the entry the other wrote
C23_CacheWitness ==
    /\ route = "news"
    /\ \E r \in ReqSlots, s \in ReqSlots :
        /\ r # s
        /\ req[r].wrote /\ req[s].hit
        /\ req[s].trace[1] = "ratelimit"
        /\ req[r].storedAt = req[s].looked
        /\ req[s].body.data = req[r].body.data

\* the failed and degraded outcomes of each upstream
DegradedNews == {o \in NewsOutcomes : o.k \in {"status", "note", "no-feed", "reject"}}

DegradedIndicators ==
    {o \in IndicatorOutcomes :
        \/ o.k \in {"status", "no-close", "reject"}
        \/ Cardinality({i \in 1..Len(o.close) : o.close[i] # NullClose}) < 15}

AllIndicesFail == [i \in 1..Len(INDICES) |-> FALSE]

\* the responses after which the exchange-rate route answers the fallback
FallbackResponses ==
    {response \in ExchangeResponses :
        \/ NoRate(response)
        \/ response.body.time_last_updated \in NoDateTimes}

\* request r has an upstream outcome among the failed and degraded ones
DegradedStep(r) ==
    \/ \E o \in DegradedNews : NewsReply(r, o)
    \/ \E o \in DegradedIndicators : IndicatorsReply(r, o)
    \/ MarketReply(r, AllIndicesFail)
    \/ \E response \in FallbackResponses : ExchangeReply(r, response)
    \/ \E i \in DOMAIN Sources, o \in SourceOutcomes \ {"data"} :
           SourceSettles(r, Sources[i], o)

\* the cache of the route answers for the key of request q at time t
AnswersFromCache(q, t) ==
    CASE route = "news" -> IsFresh(newsCache, q.symbol.v, t, NEWS_CACHE_DURATION)
      [] route = "indicators" ->
             IsFresh(indicatorsCache, q.symbol.v, t, INDICATORS_CACHE_DURATION_MS)
      [] route = "market" -> cachedData # Null /\ t - cacheTime < MARKET_CACHE_DURATION
      [] route = "exchange" ->
             cachedRate.t # "null" /\ t - cacheTime < EXCHANGE_CACHE_DURATION
      [] OTHER -> FALSE

\* request r looks its key up in the cache in this step
LooksUp(r) == req[r].looked = -1 /\ req'[r].looked = now

\* C25: a failed or degraded upstream outcome writes no cache: the news
\* cache on non-2xx, limit note or missing feed, the indicators cache on
\* non-2xx, missing closes or fewer than 15 closes, the exchange-rate cache
\* whenever the fallback rate is answered, the market cache when every index
\* fails, the enrichment cache when a source gives null.  The exchange-rate
\* cache only ever takes the rounded rate of a provider body.  Hence a
\* request that looks up a key the cache does not answer for goes upstream,
\* and an enrichment source without a fresh entry is called again
C25_DegradedNeverStored ==
    [][/\ \A r \in Slots : DegradedStep(r) => UNCHANGED caches
       /\ cachedRate' # cachedRate =>
             \E r \in ReqSlots, response \in ExchangeResponses \ FallbackResponses :
                 /\ ExchangeReply(r, response)
                 /\ IsRoundedRate(cachedRate'.v.rate, response.body.rates.THB.v)
       /\ \A r \in ReqSlots :
             (route \in {"news", "indicators", "market", "exchange"} /\ LooksUp(r)
                  /\ ~AnswersFromCache(req'[r], now)) =>
                 \/ req'[r].pc = "fetch" /\ req'[r].fetched > 0 /\ ~req'[r].hit
                 \/ req'[r].pc = "done" /\ req'[r].status = 500 /\ ~env.alphaVantageKey
       /\ \A r \in EnrichSlots :
             (route = "enhanced" /\ req[r].pc = "idle" /\ req'[r].pc = "enrich") =>
                 \A source \in SourceNames :
                     getCachedData(alphaVantageCache,
                                   CacheKey(source, req'[r].symbol.v),
                                   MaxAgeOf(source), now).t = "null"
                         => req'[r].sources[source].state = "pending"]_vars

\* C25 witness: the provider answered the first news request with its limit
\* note, nothing was stored, and the second request for the same symbol is
\* on its way upstream
C25_Witness ==
    /\ route = "news"
    /\ newsCache = EmptyMap
    /\ \E r \in ReqSlots, s \in ReqSlots :
        /\ req[r].pc = "done" /\ req[r].status = 429
        /\ req[r].body = ErrorBody("API limit")
        /\ req[s].pc = "fetch"
        /\ req[s].symbol = req[r].symbol
        /\ req[s].fetched = 1

\* the provider's rate was 33.5 itself and the cache holds it
C25_ProviderRateWitness ==
    /\ route = "exchange"
    /\ cachedRate.t = "object"
    /\ cachedRate.v.rate = FALLBACK_RATE

\* an enrichment source gave null, its entry is missing, and the request was
\* answered
C25_EnrichmentWitness ==
    /\ route = "enhanced"
    /\ \E r \in EnrichSlots :
        /\ req[r].pc = "done"
        /\ req[r].sources # <<>>
        /\ req[r].sources["rsi"].state = "settled"
        /\ req[r].sources["rsi"].outcome = "note"
        /\ ~MapHas(alphaVantageCache, CacheKey("rsi", req[r].symbol.v))

\* request s was answered from the cache entry that request r stored
ServedFrom(s, r) ==
    /\ r # s
    /\ req[r].pc = "done" /\ req[r].wrote
    /\ req[s].pc = "done" /\ req[s].hit /\ req[s].status = 200
    /\ req[s].symbol = req[r].symbol
    /\ req[s].body.data = req[r].body.data

\* C26 as claimed: the model field of every success response of the analysis
\* route names the model that generated the returned analysis, also when the
\* analysis comes from the per-symbol cache and the client asked for another
\* model than the one that produced the entry
C26_ModelNamesGenerator ==
    route = "ai" =>
        \A r \in ReqSlots, s \in ReqSlots :
            ServedFrom(s, r) => req[s].body.model = req[r].body.model

\* what holds of the model field: a generated answer names the model the
\* service reports, or else the one the client selected; an answer from the
\* cache names the model its own client selected, whoever generated it
C26_ModelOfRequester ==
    route = "ai" =>
        \A r \in ReqSlots :
            (req[r].pc = "done" /\ req[r].status = 200) =>
                /\ req[r].hit => req[r].body.model = req[r].model
                /\ req[r].wrote => req[r].body.model \in {req[r].model, "served/model"}

\* C26 witness: an analysis generated by x-ai/grok-4 was served from the
\* cache to a client that named no model, under the name of the default
\* model
C26_Witness ==
    /\ route = "ai"
    /\ \E r \in ReqSlots, s \in ReqSlots :
        /\ ServedFrom(s, r)
        /\ req[r].body.model = "x-ai/grok-4"
        /\ req[s].body.model = DefaultModel
        /\ req[s].body.cached

\* C27: with a clock that never runs backwards, any two canCall() that
\* return true are at least minInterval ms apart; a canCall() that returns
\* false leaves lastCall as it was; and getRemainingTime() is 0 exactly when
\* a canCall() at the same instant would return true
C27_ClientRateLimiter ==
    /\ [](route = "rateLimiter" =>
            /\ getRemainingTime(arg, now) = 0 <=> canCall(arg, now).result
            /\ (ret.t = "remaining" /\ ret.at = now) =>
                   (ret.ms = 0 <=> canCall(arg, now).result))
    /\ [][(route = "rateLimiter" /\ ret'.t = "canCall" /\ ret'.at = now /\ arg'.granted = now
              /\ arg.granted # -1 /\ ret'.ok) =>
                 now - arg.granted >= arg.minInterval \/ <<arg, ret>>' = <<arg, ret>>]_vars
    /\ [][(CanCall /\ ~ret'.ok) => arg'.lastCall = arg.lastCall]_vars

\* C27 witness: a call was refused 999 ms after the one that was granted,
\* lastCall still being the instant of the grant, and 1 ms remains
C27_Witness ==
    /\ route = "rateLimiter"
    /\ arg.minInterval = DefaultMinInterval
    /\ arg.granted = DefaultMinInterval
    /\ arg.lastCall = arg.granted
    /\ now = arg.granted + DefaultMinInterval - 1
    /\ ret.t = "canCall" /\ ~ret.ok /\ ret.at = now
    /\ getRemainingTime(arg, now) = 1

\* a second call was granted exactly minInterval ms after the first
C27_GrantWitness ==
    /\ route = "rateLimiter"
    /\ arg.minInterval = DefaultMinInterval
    /\ arg.granted = 2 * DefaultMinInterval + 1
    /\ arg.lastCall = arg.granted
    /\ ret.t = "canCall" /\ ret.ok

\* the symbols of a list, in its order
SymbolsOf(list) == [i \in 1..Len(list) |-> list[i].symbol]

\* C28: starting from the empty list, after any sequence of addToWatchlist,
\* removeFromWatchlist and clearWatchlist the list holds at most MAX_ITEMS
\* entries with pairwise distinct symbols in insertion order (a new entry
\* goes last, the others keep their places, the times of adding never
\* decrease along the list); adding a symbol that is present leaves the list
\* unchanged; and adding a new symbol to a full list leaves it unchanged
C28_Watchlist ==
    /\ [](route = "watchlist" =>
            /\ Len(arg.list) <= MAX_ITEMS
            /\ \A i \in 1..Len(arg.list), j \in 1..Len(arg.list) :
                   /\ (i # j => arg.list[i].symbol # arg.list[j].symbol)
                   /\ (i < j => arg.list[i].addedAt <= arg.list[j].addedAt))
    /\ [][\A symbol \in WatchSymbols, name \in {"name", "other"} :
            AddToWatchlist(symbol, name) =>
                IF HasSymbol(arg.list, symbol) \/ Len(arg.list) = MAX_ITEMS
                THEN arg'.list = arg.list
                ELSE /\ SubSeq(arg'.list, 1, Len(arg.list)) = arg.list
                     /\ Len(arg'.list) = Len(arg.list) + 1
                     /\ arg'.list[Len(arg'.list)].symbol = symbol]_vars
    /\ [][\A symbol \in WatchSymbols :
            RemoveFromWatchlist(symbol) =>
                /\ ~HasSymbol(arg'.list, symbol)
                /\ \E i \in 1..(Len(arg.list) + 1) :
                       arg'.list = SubSeq(arg.list, 1, i - 1)
                                   \o SubSeq(arg.list, i + 1, Len(arg.list))]_vars

\* C28 witness: a ticker that is not in the list was added to a list of 20
\* entries, the out-of-turn ticker among them, and the list still has its 20
\* entries, the new ticker not among them
C28_Witness ==
    /\ route = "watchlist"
    /\ ret.t = "call" /\ ret.op = "add"
    /\ ret.before = MAX_ITEMS
    /\ Len(arg.list) = MAX_ITEMS
    /\ ~HasSymbol(arg.list, ret.symbol)
    /\ HasSymbol(arg.list, MAX_ITEMS + SpareSymbols)
    /\ arg.list[1].addedAt < arg.list[MAX_ITEMS].addedAt

\* the list without the entry of the symbol, the others in their order
WithoutSymbol(list, symbol) ==
    LET Other(item) == item.symbol # symbol IN SelectSeq(list, Other)

\* C29: starting from the empty list, after any sequence of addToHistory,
\* removeFromHistory and clearHistory the history holds at most 10 entries
\* with pairwise distinct symbols, the most recently added first; adding a
\* symbol that is present moves it to the front and keeps the length; adding
\* a new symbol to a full history evicts the last entry and no other
C29_SearchHistory ==
    /\ [](route = "history" =>
            /\ Len(arg.list) <= HISTORY_MAX_ITEMS
            /\ \A i \in 1..Len(arg.list), j \in 1..Len(arg.list) :
                   /\ (i # j => arg.list[i].symbol # arg.list[j].symbol)
                   /\ (i < j => arg.list[i].timestamp >= arg.list[j].timestamp))
    /\ [][\A symbol \in HistorySymbols, name \in {"name", "other"} :
            AddToHistory(symbol, name) =>
                /\ arg'.list[1] = [symbol |-> symbol, name |-> name, timestamp |-> now]
                /\ Tail(arg'.list) =
                       IF HasSymbol(arg.list, symbol)
                       THEN WithoutSymbol(arg.list, symbol)
                       ELSE IF Len(arg.list) = HISTORY_MAX_ITEMS
                       THEN SubSeq(arg.list, 1, HISTORY_MAX_ITEMS - 1)
                       ELSE arg.list
                /\ HasSymbol(arg.list, symbol) => Len(arg'.list) = Len(arg.list)]_vars
    /\ [][\A symbol \in HistorySymbols :
            RemoveFromHistory(symbol) =>
                arg'.list = WithoutSymbol(arg.list, symbol)]_vars

\* C29 witness: a ticker was searched with the history full; it is the first
\* entry, the history is full, ticker 1 was evicted and the earlier entries
\* follow, older than the new one
C29_Witness ==
    /\ route = "history"
    /\ ret.t = "call" /\ ret.op = "add"
    /\ ret.before = HISTORY_MAX_ITEMS
    /\ Len(arg.list) = HISTORY_MAX_ITEMS
    /\ arg.list[1].symbol = ret.symbol
    /\ ~HasSymbol(arg.list, 1)
    /\ arg.list[1].timestamp > arg.list[HISTORY_MAX_ITEMS].timestamp

\* the last ticker was searched again from the end of a full history and is
\* now its first entry under its new name
C29_MoveWitness ==
    /\ route = "history"
    /\ ret.t = "call" /\ ret.op = "add"
    /\ ret.symbol = HISTORY_MAX_ITEMS + SpareSearches
    /\ ret.before = HISTORY_MAX_ITEMS
    /\ Len(arg.list) = HISTORY_MAX_ITEMS
    /\ arg.list[1].symbol = ret.symbol
    /\ arg.list[1].name = "other"
    /\ arg.list[1].timestamp > arg.list[2].timestamp
    /\ \A n \in 2..HISTORY_MAX_ITEMS : HasSymbol(arg.list, n)

\* no indicators request is in flight and none is about to be issued by an
\* effect that is due
NothingInFlight(ui) == PendingRequests(ui) = 0 /\ ~ui.effect

\* C30 as claimed: whenever no indicators request is in flight, the RSI
\* shown is null or the RSI returned for the symbol shown: a late response
\* for an earlier symbol does not overwrite it, and a failed request for
\* the new symbol does not leave the RSI of the symbol shown before
C30_RsiOfShownSymbol ==
    (route = "analyzer" /\ NothingInFlight(arg)) =>
        \/ arg.rsiData.t = "null"
        \/ arg.rsiData.of = arg.symbol

\* what holds of the RSI shown: it is the rsi of the last indicators
\* response that was ok, for whichever symbol that request was made; and
\* rsiLoading is false when no request is in flight
C30_RsiOfLastResponse ==
    route = "analyzer" =>
        /\ (ret.t = "settled" /\ ret.k = "ok") => arg.rsiData = ret.rsi
        /\ PendingRequests(arg) = 0 => ~arg.rsiLoading
        /\ arg.rsiData.t = "rsi" => arg.rsiData.of \in Tickers

\* C30 witness: symbol 2 is shown, its indicators request failed with a
\* non-2xx status, no request is in flight, and the RSI shown is that of
\* symbol 1
C30_Witness ==
    /\ route = "analyzer"
    /\ arg.symbol = 2
    /\ NothingInFlight(arg)
    /\ ret.t = "settled" /\ ret.symbol = 2 /\ ret.k = "status"
    /\ arg.rsiData.t = "rsi"
    /\ arg.rsiData.of = 1

\* symbol 2 is shown, the response for symbol 1 came last, after the one
\* for symbol 2, and the RSI shown is that of symbol 1
C30_LateWitness ==
    /\ route = "analyzer"
    /\ arg.symbol = 2
    /\ NothingInFlight(arg)
    /\ ret.t = "settled" /\ ret.symbol = 1 /\ ret.k = "ok"
    /\ arg.rsiData.t = "rsi"
    /\ arg.rsiData.of = 1

\* symbol 2 has just been committed over symbol 1, its effect has not run
\* yet, and the RSI shown is that of symbol 1 with rsiLoading still false
C30_BeforeEffectWitness ==
    /\ route = "analyzer"
    /\ arg.symbol = 2
    /\ arg.effect
    /\ PendingRequests(arg) = 0
    /\ ~arg.rsiLoading
    /\ arg.rsiData.t = "rsi"
    /\ arg.rsiData.of = 1


\* the response for symbol 1 has settled after symbol 2 was committed and
\* before the effect of that commit has run: the RSI of symbol 1 is set and
\* the effect, still due, will set rsiLoading and issue the request of
\* symbol 2
C30_SettledBeforeEffectWitness ==
    /\ route = "analyzer"
    /\ arg.symbol = 2
    /\ arg.effect
    /\ PendingRequests(arg) = 0
    /\ ret.t = "settled" /\ ret.symbol = 1 /\ ret.k = "ok"
    /\ arg.rsiData.t = "rsi"
    /\ arg.rsiData.of = 1
    /\ arg.requests[2] = 0

====
